---- MODULE Spec2Model ----
(***************************************************************************)
(* Verification model of the material3 colour library:                     *)
(*   - score::score               (src/src/score/mod.rs)                   *)
(*   - quantize::QuantizerMap     (src/src/quantize/map.rs)                *)
(*   - quantize::QuantizerWu      (src/src/quantize/wu.rs)                 *)
(*   - quantize::QuantizerWsmeans (src/src/quantize/wsmeans.rs)            *)
(*   - quantize::QuantizerCelebi  (src/src/quantize/celebi.rs)             *)
(*                                                                         *)
(* Encodings.                                                              *)
(*   An ARGB value (u32) is written as the same 32 bit pattern read as a   *)
(*   two's complement integer, so 0xff4285f4 is -12417548 and opaque       *)
(*   colours are negative; shifts are floor divisions and masks are        *)
(*   remainders, which agree with the u32 operations on that pattern.      *)
(*   f64 quantities are kept as exact integers or as integers over a       *)
(*   common positive denominator; NaN is modelled explicitly where the     *)
(*   code can produce it (0.0 / 0.0).                                      *)
(***************************************************************************)
EXTENDS Integers, Sequences, FiniteSets, TLC

VARIABLES
    \* ---- score::score --------------------------------------------------
    sc_map,        \* colors_to_population: IndexMap<u32,u32> in insertion order
    sc_desired,    \* argument `desired`
    sc_filter,     \* argument `filter`
    sc_hue_proportion, \* argb_to_hue_proportion (times population_sum)
    sc_degrees,    \* difference_degrees of the last selection pass that ran
    sc_result,     \* the returned Vec<u32>
    sc_pc          \* "build" (caller fills the map), "done", "panicked"

VARIABLES
    \* ---- the quantizer call -------------------------------------------
    q_kind,            \* "wu", "wsmeans" or "celebi"
    q_pixels,          \* argument `pixels`
    q_max_colors,      \* argument `max_colors`
    q_pc,              \* position of the call, "done", "panicked" or "hung"
    \* ---- QuantizerWu ---------------------------------------------------
    wu_hist,           \* the histogram cells behind the moment tables
    wu_cubes,          \* self.cubes (cube k at position k + 1)
    wu_volume_variance,
    wu_next,
    wu_i,              \* value the `for mut i in 1..max_color_count` yields next
    wu_generated,      \* generated_color_count
    wu_result,         \* QuantizerResult.color_to_count, in iteration order
    wu_box,            \* a call of volume, bottom and top on one box
    \* ---- QuantizerWsmeans ----------------------------------------------
    ws_starting,       \* self.starting_clusters
    ws_max_iterations, \* self.max_iterations
    ws_picks,          \* indices drawn from StdRng::seed_from_u64(0x42688)
    ws_clusters,       \* clusters (cluster k at position k + 1)
    ws_cluster_indices,
    ws_pixel_count_sums,
    ws_iteration,
    ws_result,         \* QuantizerResult.color_to_count, in iteration order
    ws_run,            \* 1, or 2 for a repeated call with the same arguments
    ws_first_result    \* ws_result of the first call

VARIABLES
    \* ---- palette::TonalPalette ----------------------------------------
    tp_colors,         \* argument of from_list (<<>> for the other constructors)
    tp_hue,            \* self.hue: None or the hue in 1/1000 degree
    tp_chroma,         \* self.chroma: None or the chroma times 1000
    tp_cache,          \* self.cache: IndexMap<u32,u32> in insertion order
    tp_ret,            \* the last call of tone / as_list and what it returned
    tp_calls,          \* calls made on the palette
    tp_pc,             \* "new", "ready", "panicked", or "searching" in a
                       \* call that does not return
    tp_pair            \* two palettes a and b, and a == b and b == a

VARIABLES
    \* ---- hct::Hct and hct::cam16::Cam16 ---------------------------------
    hc_request,        \* the call of Hct::new / Hct::get_int and its arguments
    hc_search,         \* the locals of get_int_in_viewing_conditions
    hc_ret,            \* what get_int returned
    hc_iter,           \* iterations of the outer while loop so far
    hc_pc,             \* "idle", "search", "done"; "pure" outside a call
    rt_trip,           \* the last round trip through Hct
    cm_cam,            \* the last Cam16 record constructed
    hc_cam16           \* a call of get_cam16: its position, the locals of
                       \* get_cam16_in_viewing_conditions and what it returned

quantVars ==
    <<q_kind, q_pixels, q_max_colors, q_pc,
      wu_hist, wu_cubes, wu_volume_variance, wu_next, wu_i, wu_generated,
      wu_result, wu_box,
      ws_starting, ws_max_iterations, ws_picks, ws_clusters,
      ws_cluster_indices, ws_pixel_count_sums, ws_iteration, ws_result, ws_run, ws_first_result>>

paletteVars ==
    <<tp_colors, tp_hue, tp_chroma, tp_cache, tp_ret, tp_calls, tp_pc, tp_pair>>

hctVars ==
    <<hc_request, hc_search, hc_ret, hc_iter, hc_pc, rt_trip, cm_cam, hc_cam16>>

colorVars == <<paletteVars, hctVars>>

scoreVars ==
    <<sc_map, sc_desired, sc_filter, sc_hue_proportion, sc_degrees, sc_result, sc_pc>>

\* ------------------------------------------------------------------------
\* Bounds
\* ------------------------------------------------------------------------
MaxMapLen == 3      \* entries the caller inserts into colors_to_population
MaxPopulation == 1  \* largest population of one entry
MaxDesired == 2     \* largest `desired`
MaxPixels == 3      \* length of the pixel sequence given to a quantizer
MaxColors == 3      \* largest max_colors
LongRun == 258      \* length of the long single-colour pixel run
MantissaBits == 12  \* significant bits of an f64
MaxOuter == 20      \* iterations of the chroma search that are followed
MaxToneCalls == 3   \* calls made on one TonalPalette

\* ------------------------------------------------------------------------
\* Generic helpers
\* ------------------------------------------------------------------------
Abs(x) == IF x < 0 THEN -x ELSE x

\* Rust's `%` on signed integers truncates toward zero.
RustRem(a, b) == IF a >= 0 THEN a % b ELSE -((-a) % b)

RECURSIVE SumSeq(_)
SumSeq(s) == IF s = <<>> THEN 0 ELSE Head(s) + SumSeq(Tail(s))

Range(s) == {s[i] : i \in 1..Len(s)}

\* ------------------------------------------------------------------------
\* score: the colours and their HCT coordinates
\* ------------------------------------------------------------------------
\* Hct::from_int is a floating point CAM16 computation; the scorer only
\* reads hue, chroma and tone of its result.  The input colours are sample
\* keys 1..4 whose Hct is tabulated: hue in half degrees (hue2 = 2 * hue,
\* 0 <= hue2 < 720), chroma and tone in whole units.
SampleHct ==
    <<[hue2 |->  21, chroma |-> 60, tone |-> 50],   \* hue  10.5
      [hue2 |->  41, chroma |-> 55, tone |-> 50],   \* hue  20.5
      [hue2 |->  51, chroma |->  4, tone |-> 50],   \* hue  25.5, unchromatic
      [hue2 |-> 711, chroma |-> 70, tone |->  5]>>  \* hue 355.5, very dark

SampleColors == 1..Len(SampleHct)

HctFromInt(argb) == SampleHct[argb]

\* 0xff4285f4
GoogleBlue == -12417548

TARGET_CHROMA == 48
CUT_OFF_CHROMA == 5
\* WEIGHT_PROPORTION = 0.7, WEIGHT_CHROMA_ABOVE = 0.3, WEIGHT_CHROMA_BELOW = 0.1
\* and CUT_OFF_EXCITED_PROPORTION = 0.01, as integers over 10 and over 100.
WEIGHT_PROPORTION_10 == 7
WEIGHT_CHROMA_ABOVE_10 == 3
WEIGHT_CHROMA_BELOW_10 == 1
CUT_OFF_EXCITED_PROPORTION_100 == 1

sanitize_degrees_int(degrees) ==
    LET d == RustRem(degrees, 360)
    IN  IF d < 0 THEN d + 360 ELSE d

\* calculate_difference_degrees on half degrees: 180 - ||a - b| - 180|
calculate_difference_degrees(a2, b2) == 360 - Abs(Abs(a2 - b2) - 360)

\* hct.hue.floor() and hct.hue.round() (round half away from zero)
HueFloor(argb) == HctFromInt(argb).hue2 \div 2
HueRound(argb) == (HctFromInt(argb).hue2 + 1) \div 2

Keys(m) == [i \in 1..Len(m) |-> m[i].argb]

\* population_sum
PopulationSum(m) == SumSeq([i \in 1..Len(m) |-> m[i].population])

\* hue_proportions[bucket] * population_sum
HueProportions(m, bucket) ==
    SumSeq([i \in 1..Len(m) |->
              IF HueFloor(m[i].argb) = bucket THEN m[i].population ELSE 0])

\* The buckets summed for one colour: i = hue - 15 while i < hue + 15
ExcitedWindow(argb) ==
    [k \in 1..30 |-> sanitize_degrees_int(HueRound(argb) - 15 + (k - 1))]

\* argb_to_hue_proportion[argb] * population_sum: the sum of
\* hue_proportions over the buckets of the window
ExcitedProportion(m, argb) ==
    SumSeq([k \in 1..30 |-> HueProportions(m, ExcitedWindow(argb)[k])])

\* argb_to_hue_proportion, times population_sum
ArgbToHueProportion(m) ==
    [c \in Range(Keys(m)) |-> ExcitedProportion(m, c)]

\* population as f64 / population_sum is 0.0 / 0.0 = NaN when every
\* population is zero; the NaN reaches every colour's excited proportion.
ProportionIsNaN(m) == PopulationSum(m) = 0

KeepInFilter(m, proportion, argb) ==
    /\ HctFromInt(argb).chroma >= CUT_OFF_CHROMA
    /\ ~ProportionIsNaN(m)
    /\ 100 * proportion[argb] > CUT_OFF_EXCITED_PROPORTION_100 * PopulationSum(m)

run_filter(m, proportion) ==
    SelectSeq(Keys(m), LAMBDA c : KeepInFilter(m, proportion, c))

\* score * 10 * population_sum (population_sum > 0)
ScoreOf(m, proportion, argb) ==
    LET chroma == HctFromInt(argb).chroma
        chroma_weight == IF chroma < TARGET_CHROMA
                         THEN WEIGHT_CHROMA_BELOW_10
                         ELSE WEIGHT_CHROMA_ABOVE_10
    IN  100 * WEIGHT_PROPORTION_10 * proportion[argb]
          + (chroma - TARGET_CHROMA) * chroma_weight * PopulationSum(m)

\* argb_to_score, times 10 * population_sum
ArgbToScore(m, proportion, colors) ==
    [c \in Range(colors) |-> ScoreOf(m, proportion, c)]

\* Mutation of InsertByScore: the comparator's operands swapped (ascending).
RECURSIVE InsertByScoreAscending(_, _, _)
InsertByScoreAscending(argb_to_score, sorted, c) ==
    IF sorted = <<>> THEN <<c>>
    ELSE IF argb_to_score[Head(sorted)] <= argb_to_score[c]
         THEN <<Head(sorted)>>
                  \o InsertByScoreAscending(argb_to_score, Tail(sorted), c)
         ELSE <<c>> \o sorted

\* sort_by(|a, b| b.1.partial_cmp(&a.1).unwrap()): stable, descending
RECURSIVE InsertByScore(_, _, _)
InsertByScore(argb_to_score, sorted, c) ==
    IF sorted = <<>> THEN <<c>>
    ELSE IF argb_to_score[Head(sorted)] >= argb_to_score[c]
         THEN <<Head(sorted)>> \o InsertByScore(argb_to_score, Tail(sorted), c)
         ELSE <<c>> \o sorted

RECURSIVE SortByScore(_, _, _)
SortByScore(argb_to_score, todo, sorted) ==
    IF todo = <<>> THEN sorted
    ELSE SortByScore(argb_to_score, Tail(todo),
                     InsertByScore(argb_to_score, sorted, Head(todo)))

\* calculate_difference_degrees(cam.hue, already_chosen_cam.hue) for every
\* pair of scored colours
HueDifferences(colors) ==
    [x \in Range(colors) |->
        [y \in Range(colors) |->
            calculate_difference_degrees(HctFromInt(x).hue2,
                                         HctFromInt(y).hue2)]]

\* Mutation of SelectPass: a hue difference equal to difference_degrees
\* counts as a duplicate (<= for <).
RECURSIVE SelectPassInclusive(_, _, _, _)
SelectPassInclusive(difference, todo, degrees, chosen) ==
    IF todo = <<>> THEN chosen
    ELSE LET color == Head(todo)
             duplicate_hue ==
                 \E i \in 1..Len(chosen) :
                     difference[color][chosen[i]] <= 2 * degrees
         IN  SelectPassInclusive(difference, Tail(todo), degrees,
                        IF duplicate_hue THEN chosen ELSE Append(chosen, color))

\* One pass of the selection loop at one value of difference_degrees.
RECURSIVE SelectPass(_, _, _, _)
SelectPass(difference, todo, degrees, chosen) ==
    IF todo = <<>> THEN chosen
    ELSE LET color == Head(todo)
             duplicate_hue ==
                 \E i \in 1..Len(chosen) :
                     difference[color][chosen[i]] < 2 * degrees
         IN  SelectPass(difference, Tail(todo), degrees,
                        IF duplicate_hue THEN chosen ELSE Append(chosen, color))

\* The loop left after its first pass whatever that pass kept
SelectFromFirstPass(difference, sorted, desired, degrees, chosen) ==
    [colors |-> chosen, degrees |-> degrees]

\* The pass at one value of difference_degrees, then the rest of the loop
RECURSIVE SelectLoop(_, _, _, _)
SelectFrom(difference, sorted, desired, degrees, chosen) ==
    IF Len(chosen) >= desired \/ degrees - 1 < 15
    THEN [colors |-> chosen, degrees |-> degrees]
    ELSE SelectLoop(difference, sorted, desired, degrees - 1)

\* while difference_degrees >= 15.0 { ...; if len >= desired { break }; -= 1.0 }
SelectLoop(difference, sorted, desired, degrees) ==
    SelectFrom(difference, sorted, desired, degrees,
               SelectPass(difference, sorted, degrees, <<>>))

FilteredColors(m, proportion, filter) ==
    IF filter THEN run_filter(m, proportion) ELSE Keys(m)

\* partial_cmp(..).unwrap() panics on NaN as soon as sort_by compares.
ScorePanics(m, colors) ==
    ProportionIsNaN(m) /\ Len(colors) >= 2

\* argbs_score_sorted
ScoreSorted(m, proportion, colors) ==
    IF ProportionIsNaN(m)
    THEN colors
    ELSE SortByScore(ArgbToScore(m, proportion, colors), colors, <<>>)

\* ------------------------------------------------------------------------
\* score: actions
\* ------------------------------------------------------------------------
ScoreInit ==
    /\ sc_map = <<>>
    /\ sc_desired = 0
    /\ sc_filter = FALSE
    /\ sc_hue_proportion = <<>>
    /\ sc_degrees = 90
    /\ sc_result = <<>>
    /\ sc_pc = "build"

\* colors_to_population.insert(color, population) by the caller
InsertColor(color, population) ==
    /\ sc_pc = "build"
    /\ Len(sc_map) < MaxMapLen
    /\ color \notin Range(Keys(sc_map))
    /\ sc_map' = Append(sc_map, [argb |-> color, population |-> population])
    /\ UNCHANGED <<sc_desired, sc_filter, sc_hue_proportion, sc_degrees,
                   sc_result, sc_pc>>
    /\ UNCHANGED <<quantVars, colorVars>>

\* score(colors_to_population, desired, filter)
Score(desired, filter) ==
    /\ sc_pc = "build"
    /\ sc_desired' = desired
    /\ sc_filter' = filter
    /\ \E proportion \in {ArgbToHueProportion(sc_map)} :
       \E colors \in {FilteredColors(sc_map, proportion, filter)} :
          /\ sc_hue_proportion' = proportion
          /\ IF ScorePanics(sc_map, colors)
             THEN /\ sc_pc' = "panicked"
                  /\ UNCHANGED <<sc_degrees, sc_result>>
             ELSE \E sel \in {SelectLoop(HueDifferences(colors),
                                        ScoreSorted(sc_map, proportion, colors),
                                        desired, 90)} :
                      /\ sc_degrees' = sel.degrees
                      /\ sc_result' = IF sel.colors = <<>>
                                      THEN <<GoogleBlue>>
                                      ELSE sel.colors
                      /\ sc_pc' = "done"
    /\ UNCHANGED sc_map
    /\ UNCHANGED <<quantVars, colorVars>>

ScoreNext ==
    \/ \E c \in SampleColors, p \in 0..MaxPopulation : InsertColor(c, p)
    \/ \E d \in 1..MaxDesired, f \in BOOLEAN : Score(d, f)


\* ========================================================================
\* Quantizers
\* ========================================================================

\* ------------------------------------------------------------------------
\* utils::color_utils on the two's complement reading of an ARGB value
\* ------------------------------------------------------------------------
alpha_from_argb(argb) == (argb \div 16777216) % 256
red_from_argb(argb) == (argb \div 65536) % 256
green_from_argb(argb) == (argb \div 256) % 256
blue_from_argb(argb) == argb % 256

\* 255 << 24 | (red & 255) << 16 | (green & 255) << 8 | blue & 255
argb_from_rgb(red, green, blue) ==
    (red % 256) * 65536 + (green % 256) * 256 + (blue % 256) - 16777216

\* The pixels fed to the quantizers.
Black == argb_from_rgb(0, 0, 0)          \* 0xff000000
Red == argb_from_rgb(255, 0, 0)          \* 0xffff0000
Yellow == argb_from_rgb(255, 255, 0)     \* 0xffffff00
HalfRed == Red - 127 * 16777216          \* 0x80ff0000, Red with alpha 128
PixelColors == {Black, Red, Yellow, HalfRed}
\* 0xfffe0000, in the 5-bit histogram cell of Red
NearRed == argb_from_rgb(254, 0, 0)

\* ------------------------------------------------------------------------
\* QuantizerMap::quantize
\* ------------------------------------------------------------------------
\* Positions of pixels at which a value occurs for the first time
FirstSeen(pixels) ==
    {i \in 1..Len(pixels) : \A j \in 1..(i - 1) : pixels[j] # pixels[i]}

\* The members of a set of positions in increasing order
Ascending(positions) ==
    [k \in 1..Cardinality(positions) |->
        CHOOSE i \in positions : Cardinality({j \in positions : j < i}) = k - 1]

IsOpaque(pixel) == alpha_from_argb(pixel) >= 255

\* for pixel in pixels { if alpha < 255 { continue };
\*                       *count_by_color.entry(*pixel).or_insert(0) += 1 }
\* The entries are listed in order of first insertion.
QuantizerMap(pixels) ==
    LET counted == SelectSeq(pixels, IsOpaque)
        firsts == Ascending(FirstSeen(counted))
    IN  [k \in 1..Len(firsts) |->
            [argb |-> counted[firsts[k]],
             count |-> Cardinality({i \in 1..Len(counted) :
                                      counted[i] = counted[firsts[k]]})]]

\* ------------------------------------------------------------------------
\* QuantizerWu
\* ------------------------------------------------------------------------
INDEX_BITS == 5
MAX_INDEX == 32
SIDE_LENGTH == 33
TOTAL_SIZE == 35937

\* (r << 10) + (r << 6) + (g << 5) + r + g + b
get_index(r, g, b) == r * 1024 + r * 64 + g * 32 + r + g + b

\* construct_histogram: the non-zero cells of weights, moments_r, moments_g,
\* moments_b and moments, one record per map entry (entries falling into the
\* same cell add up when the tables are summed).
HistogramCell(pixel, count) ==
    LET red == red_from_argb(pixel)
        green == green_from_argb(pixel)
        blue == blue_from_argb(pixel)
    IN  [i_r |-> (red \div 8) + 1,
         i_g |-> (green \div 8) + 1,
         i_b |-> (blue \div 8) + 1,
         weights |-> count,
         moments_r |-> red * count,
         moments_g |-> green * count,
         moments_b |-> blue * count,
         moments |-> count * (red * red + green * green + blue * blue)]

construct_histogram(pixels) ==
    [i \in 1..Len(pixels) |-> HistogramCell(pixels[i].argb, pixels[i].count)]

\* compute_moments: after the three nested prefix sums, table[get_index(r,
\* g, b)] holds the sum of the histogram cells (i_r, i_g, i_b) with
\* i_r <= r, i_g <= g, i_b <= b.
Moment(hist, table, r, g, b) ==
    SumSeq([i \in 1..Len(hist) |->
              IF hist[i].i_r <= r /\ hist[i].i_g <= g /\ hist[i].i_b <= b
              THEN hist[i][table] ELSE 0])

\* Marks a u32 subtraction that went below zero.
Fault == -1

\* a - b - c + d on u32, left to right
U32Sum4(a, b, c, d) ==
    IF a - b < 0 \/ a - b - c < 0 THEN Fault ELSE a - b - c + d

DefaultCube == [r0 |-> 0, r1 |-> 0, g0 |-> 0, g1 |-> 0, b0 |-> 0, b1 |-> 0,
                vol |-> 0]

\* volume: the 8-term inclusion-exclusion on u32, left to right
volume(hist, cube, table) ==
    LET m(r, g, b) == Moment(hist, table, r, g, b)
        s1 == m(cube.r1, cube.g1, cube.b1) - m(cube.r1, cube.g1, cube.b0)
        s2 == s1 - m(cube.r1, cube.g0, cube.b1)
        s3 == s2 + m(cube.r1, cube.g0, cube.b0)
        s4 == s3 - m(cube.r0, cube.g1, cube.b1)
        s5 == s4 + m(cube.r0, cube.g1, cube.b0)
        s6 == s5 + m(cube.r0, cube.g0, cube.b1)
        s7 == s6 - m(cube.r0, cube.g0, cube.b0)
    IN  IF s1 < 0 \/ s2 < 0 \/ s3 < 0 \/ s4 < 0 \/ s5 < 0 \/ s6 < 0 \/ s7 < 0
        THEN Fault ELSE s7

\* bottom: the i32 value res; the closing res.try_into::<u32>().unwrap()
\* fails exactly when it is negative.
bottom(hist, cube, direction, table) ==
    LET m(r, g, b) == Moment(hist, table, r, g, b)
    IN  CASE direction = "Red" ->
               -m(cube.r0, cube.g1, cube.b1) + m(cube.r0, cube.g1, cube.b0)
                 + m(cube.r0, cube.g0, cube.b1) - m(cube.r0, cube.g0, cube.b0)
          [] direction = "Green" ->
               -m(cube.r1, cube.g0, cube.b1) + m(cube.r1, cube.g0, cube.b0)
                 + m(cube.r0, cube.g0, cube.b1) - m(cube.r0, cube.g0, cube.b0)
          [] direction = "Blue" ->
               -m(cube.r1, cube.g1, cube.b0) + m(cube.r1, cube.g0, cube.b0)
                 + m(cube.r0, cube.g1, cube.b0) - m(cube.r0, cube.g0, cube.b0)

top(hist, cube, direction, position, table) ==
    LET m(r, g, b) == Moment(hist, table, r, g, b)
    IN  CASE direction = "Red" ->
               U32Sum4(m(position, cube.g1, cube.b1), m(position, cube.g1, cube.b0),
                       m(position, cube.g0, cube.b1), m(position, cube.g0, cube.b0))
          [] direction = "Green" ->
               U32Sum4(m(cube.r1, position, cube.b1), m(cube.r1, position, cube.b0),
                       m(cube.r0, position, cube.b1), m(cube.r0, position, cube.b0))
          [] direction = "Blue" ->
               U32Sum4(m(cube.r1, cube.g1, position), m(cube.r1, cube.g0, position),
                       m(cube.r0, cube.g1, position), m(cube.r0, cube.g0, position))

\* u32 products: a * a + b * b + c * c as the pair hi * 2^16 + lo, so that
\* a sum of 2^32 or more is told apart from its wrapped value.
SquareWide(a) ==
    LET ah == a \div 65536
        al == a % 65536
        bh == al \div 256
        bl == al % 256
        lo_part == 2 * bh * bl * 256 + bl * bl
    IN  [hi |-> ah * ah * 65536 + 2 * ah * al + bh * bh + lo_part \div 65536,
         lo |-> lo_part % 65536]

SumSquaresWide(a, b, c) ==
    LET lo_sum == SquareWide(a).lo + SquareWide(b).lo + SquareWide(c).lo
    IN  [hi |-> SquareWide(a).hi + SquareWide(b).hi + SquareWide(c).hi
                  + lo_sum \div 65536,
         lo |-> lo_sum % 65536]

\* The sum does not fit u32: a panic where overflow is checked, the wrapped
\* value where it is not.
U32Overflows(wide) == wide.hi >= 65536
U32Wrap(wide) == (wide.hi % 65536) * 65536 + wide.lo

\* maximize: the body of `for i in first..last` at position i, given the four
\* top(...) values.  acc holds max, cut, whether a u32 subtraction went
\* below zero (fault) and whether a u32 product or sum went above u32::MAX
\* (overflow).
MaximizeStep(acc, i, bottoms, whole, tops) ==
    LET half_r == bottoms.r + tops.r
        half_g == bottoms.g + tops.g
        half_b == bottoms.b + tops.b
        half_w == bottoms.w + tops.w
        numerator1 == SumSquaresWide(half_r, half_g, half_b)
        temp1 == U32Wrap(numerator1) \div half_w
        rest_r == whole.r - half_r
        rest_g == whole.g - half_g
        rest_b == whole.b - half_b
        rest_w == whole.w - half_w
        numerator2 == SumSquaresWide(rest_r, rest_g, rest_b)
        temp == temp1 + U32Wrap(numerator2) \div rest_w
        acc1 == IF U32Overflows(numerator1)
                THEN [acc EXCEPT !.overflow = TRUE] ELSE acc
        acc2 == IF U32Overflows(numerator2)
                THEN [acc1 EXCEPT !.overflow = TRUE] ELSE acc1
    IN  IF Fault \in {tops.r, tops.g, tops.b, tops.w}
        THEN [acc EXCEPT !.fault = TRUE]
        ELSE IF half_w = 0 THEN acc
        ELSE IF rest_r < 0 \/ rest_g < 0 \/ rest_b < 0 \/ rest_w < 0
             THEN [acc1 EXCEPT !.fault = TRUE]
        ELSE IF rest_w = 0 THEN acc1
        ELSE IF temp > acc2.maximum
             THEN [acc2 EXCEPT !.maximum = temp, !.cut_location = i]
             ELSE acc2

\* maximize: the loop `for i in first..last`, from position i on
RECURSIVE MaximizeLoop(_, _, _, _, _, _, _, _)
MaximizeLoop(hist, cube, direction, i, last, bottoms, whole, acc) ==
    IF i >= last \/ acc.fault THEN acc
    ELSE MaximizeLoop(hist, cube, direction, i + 1, last, bottoms, whole,
             MaximizeStep(acc, i, bottoms, whole,
                 [r |-> top(hist, cube, direction, i, "moments_r"),
                  g |-> top(hist, cube, direction, i, "moments_g"),
                  b |-> top(hist, cube, direction, i, "moments_b"),
                  w |-> top(hist, cube, direction, i, "weights")]))

MaximizeResult(acc) ==
    [cut_location |-> acc.cut_location,
     maximum |-> acc.maximum,
     panicked |-> acc.fault,
     overflow |-> acc.overflow]

\* maximize after its four bottom(...) calls
MaximizeFrom(hist, cube, direction, first, last, whole, bottoms) ==
    IF bottoms.r < 0 \/ bottoms.g < 0 \/ bottoms.b < 0 \/ bottoms.w < 0
    THEN [cut_location |-> -1, maximum |-> 0, panicked |-> TRUE,
          overflow |-> FALSE]
    ELSE MaximizeResult(
             MaximizeLoop(hist, cube, direction, first, last, bottoms, whole,
                          [maximum |-> 0, cut_location |-> -1,
                           fault |-> FALSE, overflow |-> FALSE]))

\* A maximize that proposes the first position whatever the weights
maximizeFirst(hist, cube, direction, first, last, whole) ==
    [cut_location |-> first, maximum |-> 1, panicked |-> FALSE,
     overflow |-> FALSE]

\* maximize: panicked is set when a conversion in bottom fails or a u32
\* subtraction goes below zero.
maximize(hist, cube, direction, first, last, whole) ==
    MaximizeFrom(hist, cube, direction, first, last, whole,
                 [r |-> bottom(hist, cube, direction, "moments_r"),
                  g |-> bottom(hist, cube, direction, "moments_g"),
                  b |-> bottom(hist, cube, direction, "moments_b"),
                  w |-> bottom(hist, cube, direction, "weights")])

CubeVol(c) == (c.r1 - c.r0) * (c.g1 - c.g0) * (c.b1 - c.b0)

\* cut after the three maximize(...) calls
CutAt(one, two, whole, max_r_result, max_g_result, max_b_result) ==
    LET max_r == max_r_result.maximum
        max_g == max_g_result.maximum
        max_b == max_b_result.maximum
        cut_direction ==
            IF max_r >= max_g /\ max_r >= max_b THEN "Red"
            ELSE IF max_g >= max_r /\ max_g >= max_b THEN "Green"
            ELSE "Blue"
        two1 == [two EXCEPT !.r1 = one.r1, !.g1 = one.g1, !.b1 = one.b1]
        new_one ==
            CASE cut_direction = "Red" ->
                   [one EXCEPT !.r1 = max_r_result.cut_location]
              [] cut_direction = "Green" ->
                   [one EXCEPT !.g1 = max_g_result.cut_location]
              [] cut_direction = "Blue" ->
                   [one EXCEPT !.b1 = max_b_result.cut_location]
        new_two ==
            CASE cut_direction = "Red" ->
                   [two1 EXCEPT !.r0 = new_one.r1, !.g0 = one.g0, !.b0 = one.b0]
              [] cut_direction = "Green" ->
                   [two1 EXCEPT !.r0 = one.r0, !.g0 = new_one.g1, !.b0 = one.b0]
              [] cut_direction = "Blue" ->
                   [two1 EXCEPT !.r0 = one.r0, !.g0 = one.g0, !.b0 = new_one.b1]
        overflow == \/ max_r_result.overflow
                    \/ max_g_result.overflow
                    \/ max_b_result.overflow
    IN  IF Fault \in {whole.r, whole.g, whole.b, whole.w}
           \/ max_r_result.panicked
           \/ max_g_result.panicked
           \/ max_b_result.panicked
        THEN [status |-> "panic", one |-> one, two |-> two,
              overflow |-> FALSE]
        ELSE IF cut_direction = "Red" /\ max_r_result.cut_location < 0
        THEN [status |-> "none", one |-> one, two |-> two,
              overflow |-> overflow]
        ELSE [status |-> "cut",
              one |-> [new_one EXCEPT !.vol = CubeVol(new_one)],
              two |-> [new_two EXCEPT !.vol = CubeVol(new_two)],
              overflow |-> overflow]

\* cut after the four volume(...) calls
CutWhole(hist, one, two, whole) ==
    CutAt(one, two, whole,
          maximize(hist, one, "Red", one.r0 + 1, one.r1, whole),
          maximize(hist, one, "Green", one.g0 + 1, one.g1, whole),
          maximize(hist, one, "Blue", one.b0 + 1, one.b1, whole))

\* cut: status "cut" (returned true), "none" (returned false) or "panic";
\* overflow tells that a u32 sum of squares in maximize exceeded u32::MAX.
cut(hist, one, two) ==
    CutWhole(hist, one, two,
             [r |-> volume(hist, one, "moments_r"),
              g |-> volume(hist, one, "moments_g"),
              b |-> volume(hist, one, "moments_b"),
              w |-> volume(hist, one, "weights")])

\* variance as the fraction num / den = xx - hypotenuse / volume_ ; den = 0
\* stands for the NaN of 0.0 / 0.0.
variance(hist, cube) ==
    LET dr == volume(hist, cube, "moments_r")
        dg == volume(hist, cube, "moments_g")
        db == volume(hist, cube, "moments_b")
        m2(r, g, b) == Moment(hist, "moments", r, g, b)
        xx == m2(cube.r1, cube.g1, cube.b1) - m2(cube.r1, cube.g1, cube.b0)
              - m2(cube.r1, cube.g0, cube.b1) + m2(cube.r1, cube.g0, cube.b0)
              - m2(cube.r0, cube.g1, cube.b1) + m2(cube.r0, cube.g1, cube.b0)
              + m2(cube.r0, cube.g0, cube.b1) - m2(cube.r0, cube.g0, cube.b0)
        hypotenuse == U32Wrap(SumSquaresWide(dr, dg, db))
        volume_ == volume(hist, cube, "weights")
    IN  [num |-> xx * volume_ - hypotenuse, den |-> volume_]

\* dr * dr + dg * dg + db * db exceeds u32::MAX
VarianceOverflows(hist, cube) ==
    U32Overflows(SumSquaresWide(volume(hist, cube, "moments_r"),
                                volume(hist, cube, "moments_g"),
                                volume(hist, cube, "moments_b")))

ZeroVariance == [num |-> 0, den |-> 1]

\* a > b on f64 (false when either is NaN)
VarianceGreater(a, b) ==
    a.den > 0 /\ b.den > 0 /\ a.num * b.den > b.num * a.den

\* temp <= 0.0
VarianceNotPositive(a) == a.den > 0 /\ a.num <= 0

\* next = 0; temp = volume_variance[0];
\* for j in 1..=i { if volume_variance[j] > temp { temp = ..; next = j } }
RECURSIVE PickNext(_, _, _, _)
PickNext(volume_variance, j, i, next) ==
    IF j > i THEN next
    ELSE PickNext(volume_variance, j + 1, i,
                  IF VarianceGreater(volume_variance[j + 1],
                                     volume_variance[next + 1])
                  THEN j ELSE next)

\* create_result: mean colour of every cube of non-zero weight
RECURSIVE create_result(_, _, _, _)
create_result(hist, cubes, i, color_count) ==
    IF i >= color_count THEN <<>>
    ELSE LET cube == cubes[i + 1]
             weight == volume(hist, cube, "weights")
             r == volume(hist, cube, "moments_r") \div weight
             g == volume(hist, cube, "moments_g") \div weight
             b == volume(hist, cube, "moments_b") \div weight
         IN  (IF weight > 0 THEN <<argb_from_rgb(r, g, b)>> ELSE <<>>)
                 \o create_result(hist, cubes, i + 1, color_count)

\* ------------------------------------------------------------------------
\* PointProviderLab / QuantizerWsmeans
\* ------------------------------------------------------------------------
\* lab_from_argb and argb_from_lab are floating point maps between ARGB and
\* L*a*b*.  The model keeps what the quantizer relies on: from_int reads the
\* three colour channels and ignores alpha, to_int rounds every coordinate
\* to the nearest channel value and yields an opaque colour, and
\* to_int(from_int(c)) = c for opaque c.  Coordinates are the channel
\* values; every point is stored times WsScale so that the weighted means
\* of up to MaxPixels pixels are integers.
RECURSIVE Gcd(_, _)
Gcd(a, b) == IF b = 0 THEN a ELSE Gcd(b, a % b)

RECURSIVE LcmUpTo(_)
LcmUpTo(n) == IF n <= 1 THEN 1
              ELSE LET l == LcmUpTo(n - 1) IN (l * n) \div Gcd(l, n)

WsScale == LcmUpTo(MaxPixels)

\* point_provider.from_int
from_int(argb) ==
    <<WsScale * red_from_argb(argb),
      WsScale * green_from_argb(argb),
      WsScale * blue_from_argb(argb)>>

\* f64::round of a non-negative coordinate x / WsScale
RoundCoordinate(x) == (2 * x + WsScale) \div (2 * WsScale)

\* point_provider.to_int
to_int(point) ==
    argb_from_rgb(RoundCoordinate(point[1]), RoundCoordinate(point[2]),
                  RoundCoordinate(point[3]))

\* point_provider.distance (squared, times WsScale^2)
distance(one, two) ==
    LET d_l == one[1] - two[1]
        d_a == one[2] - two[2]
        d_b == one[3] - two[3]
    IN  d_l * d_l + d_a * d_a + d_b * d_b

MAX_ITERATIONS == 5

\* pixels: the distinct input pixels in first-seen order
DistinctPixels(input_pixels) ==
    [k \in 1..Cardinality(FirstSeen(input_pixels)) |->
        input_pixels[Ascending(FirstSeen(input_pixels))[k]]]

\* counts[i] = pixel_to_count[pixels[i]]
PixelCounts(input_pixels, pixels) ==
    [i \in 1..Len(pixels) |->
        Cardinality({k \in 1..Len(input_pixels) : input_pixels[k] = pixels[i]})]

Min(a, b) == IF a <= b THEN a ELSE b

\* Mutation of NewClusterIndex: centroid j is skipped when its distance to
\* the previous centroid is at least the distance of the point (factor 1
\* for 4).
RECURSIVE NewClusterIndexUnscaled(_, _, _, _, _, _, _)
NewClusterIndexUnscaled(point, clusters, previous_cluster_index, previous_distance, j, minimum_distance, new_cluster_index) ==
    IF j >= Len(clusters) THEN new_cluster_index
    ELSE IF distance(clusters[previous_cluster_index + 1], clusters[j + 1])
               >= previous_distance
         THEN NewClusterIndexUnscaled(point, clusters, previous_cluster_index,
                                      previous_distance, j + 1,
                                      minimum_distance, new_cluster_index)
         ELSE LET d == distance(point, clusters[j + 1])
              IN  IF d < minimum_distance
                  THEN NewClusterIndexUnscaled(point, clusters,
                                               previous_cluster_index,
                                               previous_distance, j + 1, d, j)
                  ELSE NewClusterIndexUnscaled(point, clusters,
                                               previous_cluster_index,
                                               previous_distance, j + 1,
                                               minimum_distance,
                                               new_cluster_index)

\* The reassignment of one point: the index of its cluster after the scan
\* `for j in 0..cluster_count`, or -1 when it stays (cluster indices from 0).
RECURSIVE NewClusterIndex(_, _, _, _, _, _, _)
NewClusterIndex(point, clusters, previous_cluster_index, previous_distance, j, minimum_distance, new_cluster_index) ==
    IF j >= Len(clusters) THEN new_cluster_index
    ELSE IF distance(clusters[previous_cluster_index + 1], clusters[j + 1])
               >= 4 * previous_distance
         THEN NewClusterIndex(point, clusters, previous_cluster_index,
                              previous_distance, j + 1, minimum_distance,
                              new_cluster_index)
         ELSE LET d == distance(point, clusters[j + 1])
              IN  IF d < minimum_distance
                  THEN NewClusterIndex(point, clusters, previous_cluster_index,
                                       previous_distance, j + 1, d, j)
                  ELSE NewClusterIndex(point, clusters, previous_cluster_index,
                                       previous_distance, j + 1,
                                       minimum_distance, new_cluster_index)

Reassign(points, clusters, cluster_indices) ==
    [i \in 1..Len(points) |->
        LET previous_distance ==
                distance(points[i], clusters[cluster_indices[i] + 1])
        IN  NewClusterIndex(points[i], clusters, cluster_indices[i],
                            previous_distance, 0, previous_distance, -1)]

\* pixel_count_sums as first allocated, vec![0; cluster_count], never
\* recomputed from the assignment
PixelCountSumsInitial(cluster_count, cluster_indices, counts) ==
    [c \in 1..cluster_count |-> 0]

\* pixel_count_sums for an assignment
PixelCountSums(cluster_count, cluster_indices, counts) ==
    [c \in 1..cluster_count |->
        SumSeq([i \in 1..Len(counts) |->
                  IF cluster_indices[i] = c - 1 THEN counts[i] ELSE 0])]

\* The new centroids: population-weighted means, [0, 0, 0] when empty
Centroids(cluster_count, points, cluster_indices, counts) ==
    LET sums == PixelCountSums(cluster_count, cluster_indices, counts)
        component(c, k) ==
            SumSeq([i \in 1..Len(points) |->
                      IF cluster_indices[i] = c - 1
                      THEN points[i][k] * counts[i] ELSE 0])
    IN  [c \in 1..cluster_count |->
            IF sums[c] = 0 THEN <<0, 0, 0>>
            ELSE <<component(c, 1) \div sums[c],
                   component(c, 2) \div sums[c],
                   component(c, 3) \div sums[c]>>]

\* cluster_argbs and cluster_populations, zipped: clusters of zero
\* population are skipped, and so is a cluster whose colour is already
\* listed.
RECURSIVE ClusterResult(_, _, _, _)
ClusterResult(clusters, pixel_count_sums, i, listed) ==
    IF i > Len(clusters) THEN listed
    ELSE LET possible_new_cluster == to_int(clusters[i])
         IN  IF pixel_count_sums[i] = 0
                \/ \E k \in 1..Len(listed) : listed[k].argb = possible_new_cluster
             THEN ClusterResult(clusters, pixel_count_sums, i + 1, listed)
             ELSE ClusterResult(clusters, pixel_count_sums, i + 1,
                                Append(listed,
                                       [argb |-> possible_new_cluster,
                                        count |-> pixel_count_sums[i]]))

\* The iteration orders a std::collections::HashMap may present the
\* collected entries in (QuantizerResult::color_to_count).
IndexPermutations(n) ==
    {f \in [1..n -> 1..n] : \A i, j \in 1..n : f[i] = f[j] => i = j}

HashMapOrders(entries) ==
    {[i \in 1..Len(entries) |-> entries[f[i]]] : f \in IndexPermutations(Len(entries))}

\* Sequences of `needed` distinct indices below point_count, the values the
\* seeded generator can hand out through gen_range and the retry loop.
DistinctIndices(needed, point_count) ==
    {f \in [1..needed -> 0..(point_count - 1)] :
        \A i, j \in 1..needed : f[i] = f[j] => i = j}

\* ------------------------------------------------------------------------
\* Quantizers: actions
\* ------------------------------------------------------------------------
PixelSequences == UNION {[1..n -> PixelColors] : n \in 0..MaxPixels}

\* starting_clusters handed to a QuantizerWsmeans built by the caller;
\* QuantizerWsmeans::default() has none.
StartingChoices == {<<>>, <<Red>>}

\* max_iterations of a QuantizerWsmeans built by the caller (the field is
\* public); QuantizerWsmeans::default() and QuantizerCelebi use 5.
MaxIterationChoices == {1, 2, MAX_ITERATIONS}

wuVars == <<wu_hist, wu_cubes, wu_volume_variance, wu_next, wu_i,
            wu_generated, wu_result, wu_box>>
wsVars == <<ws_starting, ws_picks, ws_clusters, ws_cluster_indices,
            ws_pixel_count_sums, ws_iteration, ws_result, ws_run,
            ws_first_result>>
callVars == <<q_kind, q_pixels, q_max_colors, ws_max_iterations>>

\* A freshly constructed quantizer of kind q_kind
QuantFresh ==
    /\ q_pc = IF q_kind = "wsmeans" THEN "ws_start" ELSE "wu_start"
    /\ wu_hist = <<>>
    /\ wu_cubes = <<>>
    /\ wu_volume_variance = <<>>
    /\ wu_next = 0
    /\ wu_i = 1
    /\ wu_generated = 0
    /\ wu_result = <<>>
    /\ wu_box = <<>>
    /\ ws_starting \in (IF q_kind = "wsmeans" THEN StartingChoices ELSE {<<>>})
    /\ ws_max_iterations \in (IF q_kind = "wsmeans" THEN MaxIterationChoices
                                                   ELSE {MAX_ITERATIONS})
    /\ ws_picks = <<>>
    /\ ws_clusters = <<>>
    /\ ws_cluster_indices = <<>>
    /\ ws_pixel_count_sums = <<>>
    /\ ws_iteration = 0
    /\ ws_result = <<>>
    /\ ws_run = 1
    /\ ws_first_result = <<>>

QuantInit ==
    /\ q_kind \in {"wu", "wsmeans", "celebi"}
    /\ q_pixels \in PixelSequences
    /\ q_max_colors \in 1..MaxColors
    /\ QuantFresh
    /\ ws_max_iterations = MAX_ITERATIONS

\* A QuantizerWsmeans built by the caller without starting clusters and
\* with a max_iterations of the caller's choice
WsmeansInit ==
    /\ q_kind = "wsmeans"
    /\ q_pixels \in PixelSequences
    /\ q_max_colors \in 1..MaxColors
    /\ QuantFresh
    /\ ws_starting = <<>>

\* Pixel sequences made of n copies of one opaque colour
OpaqueColors == {c \in PixelColors : alpha_from_argb(c) = 255}
RunSequences ==
    {[i \in 1..n |-> c] : c \in OpaqueColors, n \in (1..MaxPixels) \cup {LongRun}}

RunInit ==
    /\ q_kind \in {"wu", "wsmeans", "celebi"}
    /\ q_pixels \in RunSequences
    /\ q_max_colors \in 1..MaxColors
    /\ QuantFresh
    /\ ws_max_iterations = MAX_ITERATIONS

\* Pixel sequences listing each colour of a set of distinct opaque colours
\* once
SetSequences ==
    {pixels \in UNION {[1..n -> OpaqueColors \cup {NearRed}] : n \in 1..MaxPixels} :
        \A i, j \in 1..Len(pixels) : i # j => pixels[i] # pixels[j]}

SetInit ==
    /\ q_kind \in {"wu", "wsmeans", "celebi"}
    /\ q_pixels \in SetSequences
    /\ q_max_colors \in Len(q_pixels)..MaxColors
    /\ QuantFresh
    /\ ws_max_iterations = MAX_ITERATIONS

\* QuantizerWu::quantize up to the loop of create_cubes
WuStart ==
    /\ q_pc = "wu_start"
    /\ wu_hist' = construct_histogram(QuantizerMap(q_pixels))
    /\ wu_cubes' = [k \in 1..q_max_colors |->
                      IF k = 1
                      THEN [DefaultCube EXCEPT !.r1 = MAX_INDEX,
                                               !.g1 = MAX_INDEX,
                                               !.b1 = MAX_INDEX]
                      ELSE DefaultCube]
    /\ wu_volume_variance' = [k \in 1..q_max_colors |-> ZeroVariance]
    /\ wu_next' = 0
    /\ wu_i' = 1
    /\ wu_generated' = q_max_colors
    /\ q_pc' = IF 1 < q_max_colors THEN "wu_cubes" ELSE "wu_result"
    /\ UNCHANGED <<wu_result, wu_box, wsVars, callVars, scoreVars, colorVars>>

\* The u32 arithmetic of cut and of the variance calls that follow it
\* exceeded u32::MAX.
CutOverflows(hist, res) ==
    \/ res.overflow
    \/ /\ res.status = "cut"
       /\ \/ res.one.vol > 1 /\ VarianceOverflows(hist, res.one)
          \/ res.two.vol > 1 /\ VarianceOverflows(hist, res.two)

\* One iteration of `for mut i in 1..max_color_count` in create_cubes.  An
\* arithmetic overflow panics in a build with overflow checks and wraps in
\* a build without them.
WuCutStep ==
    /\ q_pc = "wu_cubes"
    /\ \E res \in {cut(wu_hist, wu_cubes[wu_next + 1], wu_cubes[wu_i + 1])} :
       \/ /\ res.status = "panic" \/ CutOverflows(wu_hist, res)
          /\ q_pc' = "panicked"
          /\ UNCHANGED <<wu_cubes, wu_volume_variance, wu_next, wu_i,
                         wu_generated>>
       \/ /\ res.status # "panic"
          /\ \E volume_variance \in
                  {IF res.status = "cut"
                   THEN [wu_volume_variance EXCEPT
                           ![wu_next + 1] =
                               IF res.one.vol > 1
                               THEN variance(wu_hist, res.one) ELSE ZeroVariance,
                           ![wu_i + 1] =
                               IF res.two.vol > 1
                               THEN variance(wu_hist, res.two) ELSE ZeroVariance]
                   ELSE [wu_volume_variance EXCEPT ![wu_next + 1] = ZeroVariance]} :
             LET i == IF res.status = "cut" THEN wu_i ELSE wu_i - 1
                 next == PickNext(volume_variance, 1, i, 0)
                 temp == volume_variance[next + 1]
             IN  /\ wu_cubes' = IF res.status = "cut"
                                THEN [wu_cubes EXCEPT ![wu_next + 1] = res.one,
                                                      ![wu_i + 1] = res.two]
                                ELSE wu_cubes
                 /\ wu_volume_variance' = volume_variance
                 /\ wu_next' = next
                 /\ IF VarianceNotPositive(temp)
                    THEN /\ wu_generated' = i + 1
                         /\ wu_i' = wu_i
                         /\ q_pc' = "wu_result"
                    ELSE /\ wu_generated' = wu_generated
                         /\ wu_i' = wu_i + 1
                         /\ q_pc' = IF wu_i + 1 < q_max_colors
                                    THEN "wu_cubes" ELSE "wu_result"
    /\ UNCHANGED <<wu_hist, wu_result, wu_box, wsVars, callVars, scoreVars,
                   colorVars>>

\* create_result and the collection of its colours into color_to_count
WuResult ==
    /\ q_pc = "wu_result"
    /\ LET results == create_result(wu_hist, wu_cubes, 0, wu_generated)
           keys == DistinctPixels(results)
           entries == [k \in 1..Len(keys) |-> [argb |-> keys[k], count |-> 0]]
       IN  \E order \in HashMapOrders(entries) :
               /\ wu_result' = order
               /\ IF q_kind = "celebi"
                  THEN /\ ws_starting' = [k \in 1..Len(order) |-> order[k].argb]
                       /\ q_pc' = "ws_start"
                  ELSE /\ ws_starting' = ws_starting
                       /\ q_pc' = "done"
    /\ UNCHANGED <<wu_hist, wu_cubes, wu_volume_variance, wu_next, wu_i,
                   wu_generated, wu_box, ws_picks, ws_clusters, ws_cluster_indices,
                   ws_pixel_count_sums, ws_iteration, ws_result, ws_run,
                   ws_first_result, callVars, scoreVars, colorVars>>

\* Boxes (r0, r1] x (g0, g1] x (b0, b1] of the histogram, with bounds at
\* the origin, at the cell of black and at the far side
BoxBounds == {0, 1, MAX_INDEX}
Boxes ==
    {[r0 |-> c.r0, r1 |-> c.r1, g0 |-> c.g0, g1 |-> c.g1,
      b0 |-> c.b0, b1 |-> c.b1,
      vol |-> (c.r1 - c.r0) * (c.g1 - c.g0) * (c.b1 - c.b0)] :
        c \in {d \in [r0 : BoxBounds, r1 : BoxBounds, g0 : BoxBounds,
                      g1 : BoxBounds, b0 : BoxBounds, b1 : BoxBounds] :
                  d.r0 <= d.r1 /\ d.g0 <= d.g1 /\ d.b0 <= d.b1}}

\* A u32 expression whose running value went below zero: a panic where
\* overflow is checked; where it is not the value wraps and ends at the
\* exact value, a sum of histogram cells that fits u32
U32Outcomes(checked, exact) ==
    IF checked = Fault THEN {Fault, exact} ELSE {checked}

VolumeExact(hist, cube, table) ==
    LET m(r, g, b) == Moment(hist, table, r, g, b)
    IN  m(cube.r1, cube.g1, cube.b1) - m(cube.r1, cube.g1, cube.b0)
          - m(cube.r1, cube.g0, cube.b1) + m(cube.r1, cube.g0, cube.b0)
          - m(cube.r0, cube.g1, cube.b1) + m(cube.r0, cube.g1, cube.b0)
          + m(cube.r0, cube.g0, cube.b1) - m(cube.r0, cube.g0, cube.b0)

TopExact(hist, cube, direction, position, table) ==
    LET m(r, g, b) == Moment(hist, table, r, g, b)
    IN  CASE direction = "Red" ->
               m(position, cube.g1, cube.b1) - m(position, cube.g1, cube.b0)
                 - m(position, cube.g0, cube.b1) + m(position, cube.g0, cube.b0)
          [] direction = "Green" ->
               m(cube.r1, position, cube.b1) - m(cube.r1, position, cube.b0)
                 - m(cube.r0, position, cube.b1) + m(cube.r0, position, cube.b0)
          [] direction = "Blue" ->
               m(cube.r1, cube.g1, position) - m(cube.r1, cube.g0, position)
                 - m(cube.r0, cube.g1, position) + m(cube.r0, cube.g0, position)

LowerBound(cube, direction) ==
    IF direction = "Red" THEN cube.r0
    ELSE IF direction = "Green" THEN cube.g0 ELSE cube.b0

UpperBound(cube, direction) ==
    IF direction = "Red" THEN cube.r1
    ELSE IF direction = "Green" THEN cube.g1 ELSE cube.b1

\* volume, bottom and top called on one box after compute_moments; Fault
\* stands for a call that panicked
WuMeasure ==
    /\ q_pc \in {"wu_cubes", "wu_result"}
    /\ wu_box = <<>>
    /\ \E cube \in Boxes, direction \in {"Red", "Green", "Blue"},
          position \in BoxBounds, table \in {"weights", "moments_r"} :
         /\ position >= LowerBound(cube, direction)
         /\ position <= UpperBound(cube, direction)
         /\ \E volume_ \in U32Outcomes(volume(wu_hist, cube, table),
                                       VolumeExact(wu_hist, cube, table)),
               top_ \in U32Outcomes(
                           top(wu_hist, cube, direction, position, table),
                           TopExact(wu_hist, cube, direction, position, table)) :
              wu_box' = [cube |-> cube, direction |-> direction,
                         position |-> position, table |-> table,
                         volume |-> volume_,
                         bottom |-> IF bottom(wu_hist, cube, direction, table) < 0
                                    THEN Fault
                                    ELSE bottom(wu_hist, cube, direction, table),
                         top |-> top_]
    /\ q_pc' = "measured"
    /\ UNCHANGED <<wu_hist, wu_cubes, wu_volume_variance, wu_next, wu_i,
                   wu_generated, wu_result, wsVars, callVars, scoreVars,
                   colorVars>>

WsPixels == DistinctPixels(q_pixels)
WsPoints == [i \in 1..Len(WsPixels) |-> from_int(WsPixels[i])]
WsCounts == PixelCounts(q_pixels, WsPixels)
WsClusterCount == Min(q_max_colors, Len(WsPixels))

\* QuantizerWsmeans::quantize up to the iteration loop
WsStart ==
    /\ q_pc = "ws_start"
    /\ IF WsClusterCount < Len(ws_starting)
       THEN \* cluster_count - clusters.len() on usize: the subtraction
            \* panics when overflow is checked; unchecked it wraps and the
            \* index loop either panics on an empty range or never finds a
            \* free index.
            /\ q_pc' \in (IF Len(WsPixels) = 0
                          THEN {"panicked"} ELSE {"panicked", "hung"})
            /\ UNCHANGED <<ws_picks, ws_clusters, ws_cluster_indices,
                           ws_pixel_count_sums, ws_iteration>>
       ELSE /\ \E picks \in DistinctIndices(WsClusterCount - Len(ws_starting),
                                            Len(WsPixels)) :
                  /\ ws_run = 2 => picks = ws_picks
                  /\ ws_picks' = picks
                  /\ ws_clusters' =
                        [k \in 1..Len(ws_starting) |-> from_int(ws_starting[k])]
                          \o [k \in 1..Len(picks) |-> WsPoints[picks[k] + 1]]
            /\ ws_cluster_indices' =
                  [i \in 1..Len(WsPixels) |-> (i - 1) % WsClusterCount]
            /\ ws_pixel_count_sums' = [c \in 1..WsClusterCount |-> 0]
            /\ ws_iteration' = 0
            /\ q_pc' = "ws_iterate"
    /\ UNCHANGED <<ws_starting, ws_result, ws_run, ws_first_result, wuVars,
                   callVars, scoreVars, colorVars>>

\* One iteration of `for iteration in 0..self.max_iterations`
WsIterate ==
    /\ q_pc = "ws_iterate"
    /\ \E moves \in {Reassign(WsPoints, ws_clusters, ws_cluster_indices)} :
       \E cluster_indices \in
            {[i \in 1..Len(moves) |->
                 IF moves[i] # -1 THEN moves[i] ELSE ws_cluster_indices[i]]} :
         LET points_moved == Cardinality({i \in 1..Len(moves) : moves[i] # -1})
         IN  IF points_moved = 0 /\ ws_iteration > 0
             THEN /\ ws_pixel_count_sums' =
                        PixelCountSums(WsClusterCount, ws_cluster_indices,
                                       WsCounts)
                  /\ q_pc' = "ws_finish"
                  /\ UNCHANGED <<ws_clusters, ws_cluster_indices, ws_iteration>>
             ELSE /\ ws_cluster_indices' = cluster_indices
                  /\ ws_pixel_count_sums' =
                        PixelCountSums(WsClusterCount, cluster_indices, WsCounts)
                  /\ ws_clusters' =
                        Centroids(WsClusterCount, WsPoints, cluster_indices,
                                  WsCounts)
                  /\ ws_iteration' = ws_iteration + 1
                  /\ q_pc' = IF ws_iteration + 1 < ws_max_iterations
                             THEN "ws_iterate" ELSE "ws_finish"
    /\ UNCHANGED <<ws_starting, ws_picks, ws_result, ws_run, ws_first_result,
                   wuVars, callVars, scoreVars, colorVars>>

\* The result clusters, collected into color_to_count
WsFinish ==
    /\ q_pc = "ws_finish"
    /\ \E order \in HashMapOrders(ClusterResult(ws_clusters,
                                                ws_pixel_count_sums, 1, <<>>)) :
           ws_result' = order
    /\ q_pc' = "done"
    /\ UNCHANGED <<ws_starting, ws_picks, ws_clusters, ws_cluster_indices,
                   ws_pixel_count_sums, ws_iteration, ws_run, ws_first_result,
                   wuVars, callVars, scoreVars, colorVars>>

\* A second call of QuantizerWsmeans::quantize with the same pixels,
\* max_colors and starting clusters (and the same seed)
WsRerun ==
    /\ q_pc = "done"
    /\ q_kind = "wsmeans"
    /\ ws_run = 1
    /\ ws_run' = 2
    /\ ws_first_result' = ws_result
    /\ ws_result' = <<>>
    /\ ws_clusters' = <<>>
    /\ ws_cluster_indices' = <<>>
    /\ ws_pixel_count_sums' = <<>>
    /\ ws_iteration' = 0
    /\ q_pc' = "ws_start"
    /\ UNCHANGED <<ws_starting, ws_picks, wuVars, callVars, scoreVars, colorVars>>

QuantNext ==
    \/ WuStart
    \/ WuCutStep
    \/ WuResult
    \/ WsStart
    \/ WsIterate
    \/ WsFinish
    \/ WsRerun

\* ------------------------------------------------------------------------
\* Hct and Cam16
\* ------------------------------------------------------------------------
\* Hue and tone (L*) are held in 1/1000 degree and 1/1000 L*, chroma in
\* 1/1000. An f64 is a number with MantissaBits significant bits: every
\* value below 2^MantissaBits is exact, larger ones are spaced by their ulp.

\* CHROMA_SEARCH_ENDPOINT = 0.4 and DL_MAX = 0.2 in 1/1000,
\* LIGHTNESS_SEARCH_ENDPOINT = 0.01 as its inverse, and the upper end
\* 100.0 of the J search in units of 100 / 2^14
CHROMA_SEARCH_ENDPOINT == 400
DL_MAX == 200
LIGHTNESS_SEARCH_ENDPOINT_INV == 100
J_HIGH == 16384

\* math_utils::clamp_double
clamp_double(min, max, input) ==
    IF input < min THEN min ELSE IF input > max THEN max ELSE input

\* math_utils::sanitize_degrees_double
sanitize_degrees_double(degrees) ==
    LET rem == RustRem(degrees, 360000)
    IN  IF rem < 0 THEN rem + 360000 ELSE rem

\* f64::round of a tone: half away from zero, in whole L*
RoundTone(lstar) ==
    IF lstar >= 0 THEN (lstar + 500) \div 1000 ELSE -((500 - lstar) \div 1000)

\* The early return of get_int_in_viewing_conditions
Degenerate(chroma, lstar) ==
    chroma < 1000 \/ RoundTone(lstar) <= 0 \/ RoundTone(lstar) >= 100

\* The hue get_int_in_viewing_conditions searches with
SearchHue(hue) == IF hue < 0 THEN 0 ELSE IF hue > 360000 THEN 360000 ELSE hue

RECURSIVE BitLen(_)
BitLen(n) == IF n = 0 THEN 0 ELSE 1 + BitLen(n \div 2)

RECURSIVE Pow2(_)
Pow2(n) == IF n = 0 THEN 1 ELSE 2 * Pow2(n - 1)

\* The spacing of the f64 values around the magnitude of value
Ulp(value) ==
    IF BitLen(value) <= MantissaBits THEN 1
    ELSE Pow2(BitLen(value) - MantissaBits)

\* The f64 nearest to halves / 2, ties to the even mantissa
RoundFloat2(halves) ==
    LET ulp == Ulp(halves \div 2)
        down == ((halves \div 2) \div ulp) * ulp
        up == down + ulp
    IN  IF 2 * down = halves THEN down
        ELSE IF halves - 2 * down < 2 * up - halves THEN down
        ELSE IF halves - 2 * down > 2 * up - halves THEN up
        ELSE IF (down \div ulp) % 2 = 0 THEN down ELSE up

\* Mutation of Midpoint: the probe is the upper end of the interval.
MidpointHigh(low, high) == high

\* low + (high - low) / 2.0
Midpoint(low, high) ==
    RoundFloat2(2 * low + RoundFloat2(2 * (high - low)))

\* Whether some J gives a colour of the requested hue with d_e <= DE_MAX
\* at this chroma: chromas up to gamut.top, outside the gap gamut.gap
InGamut(gamut, chroma) ==
    chroma <= gamut.top /\ ~(gamut.gap[1] <= chroma /\ chroma <= gamut.gap[2])

\* The while loop of find_cam_by_j, the L* of the clipped colour rising
\* with J and equal to lstar at J = lstar
RECURSIVE JSearch(_, _, _, _, _, _)
JSearch(low, high, lstar, in_gamut, best, iterations) ==
    IF Abs(low - high) * 100 * LIGHTNESS_SEARCH_ENDPOINT_INV <= J_HIGH
    THEN [found |-> best, iterations |-> iterations]
    ELSE LET mid == low + (high - low) \div 2
             clipped_lstar == (mid * 100000) \div J_HIGH
             d_l == Abs(lstar - clipped_lstar)
             better == best \/ (d_l < DL_MAX /\ in_gamut)
         IN  IF d_l = 0 /\ in_gamut
             THEN [found |-> TRUE, iterations |-> iterations + 1]
             ELSE IF clipped_lstar < lstar
             THEN JSearch(mid, high, lstar, in_gamut, better, iterations + 1)
             ELSE JSearch(low, mid, lstar, in_gamut, better, iterations + 1)

\* Hct::find_cam_by_j
find_cam_by_j(gamut, chroma, lstar) ==
    JSearch(0, J_HIGH, lstar, InGamut(gamut, chroma), FALSE, 0)

\* Cam16::from_int(argb).hue, .chroma and lstar_from_argb(argb) of the
\* sample colours, and the results of the gamut search and of
\* argb_from_lstar for them
HctOfArgb ==
    (-16777216 :> [hue |-> 0, chroma |-> 0, tone |-> 0]) @@
    (-16777215 :> [hue |-> 282925, chroma |-> 6459, tone |-> 20]) @@
    (-65536 :> [hue |-> 27408, chroma |-> 113358, tone |-> 53233]) @@
    (-16711936 :> [hue |-> 142140, chroma |-> 108410, tone |-> 87737]) @@
    (-16776961 :> [hue |-> 282788, chroma |-> 87231, tone |-> 32303]) @@
    (-12417548 :> [hue |-> 265979, chroma |-> 62269, tone |-> 56550]) @@
    (-1 :> [hue |-> 209492, chroma |-> 2869, tone |-> 100000]) @@
    (-9014157 :> [hue |-> 118740, chroma |-> 474, tone |-> 48983]) @@
    (-9145228 :> [hue |-> 209494, chroma |-> 1788, tone |-> 48840]) @@
    (-2130771968 :> [hue |-> 27408, chroma |-> 113358, tone |-> 53233])

GamutSearch ==
    (<<27408, 113358, 53233>> :> -65536) @@
    (<<142140, 108410, 87737>> :> -16711936) @@
    (<<282788, 87231, 32303>> :> -16776961) @@
    (<<265979, 62269, 56550>> :> -12417548) @@
    (<<209494, 1788, 48840>> :> -9145228)

GrayOfTone ==
    (0 :> -16777216) @@
    (20 :> -16777216) @@
    (100000 :> -1) @@
    (48983 :> -9145228) @@
    (-5000 :> -16777216) @@
    (30000 :> -12105913) @@
    (50000 :> -8947849) @@
    (150000 :> -1)

\* lstar_from_argb of the integers a tone becomes under `as u32`: colours
\* of alpha, red and green 0 whose blue channel is the tone
LstarOfBlue ==
    (0 :> 0) @@ (30 :> 846) @@ (50 :> 2080) @@ (150 :> 16513)

\* Cam16::from_int(argb): hue, chroma and J of the grays of the tones
\* asked for and of the integers 0, 2 and 16
Cam16OfArgb ==
    (-16777216 :> [hue |-> 0, chroma |-> 0, j |-> 0]) @@
    (-12105913 :> [hue |-> 209495, chroma |-> 1344, j |-> 22147]) @@
    (-8947849 :> [hue |-> 209494, chroma |-> 1816, j |-> 39896]) @@
    (-1 :> [hue |-> 209492, chroma |-> 2869, j |-> 100000]) @@
    (0 :> [hue |-> 0, chroma |-> 0, j |-> 0]) @@
    (2 :> [hue |-> 282924, chroma |-> 8517, j |-> 428]) @@
    (16 :> [hue |-> 282914, chroma |-> 18284, j |-> 1400])

\* f64 `as u32`: towards zero, negatives to 0
AsU32(value) == IF value <= 0 THEN 0 ELSE value \div 1000

\* lstar_from_argb(lstar as u32) as u32, the colour get_cam16 takes the
\* record of in its early return
DegenerateArgb(lstar) == AsU32(LstarOfBlue[AsU32(lstar)])

NearBlack == argb_from_rgb(0, 0, 1)          \* 0xff000001
NearGray == argb_from_rgb(118, 116, 115)     \* 0xff767473
White == argb_from_rgb(255, 255, 255)        \* 0xffffffff
Blue == argb_from_rgb(0, 0, 255)             \* 0xff0000ff
RoundTripColors == {Black, NearBlack, Red, Blue, GoogleBlue, White, NearGray, HalfRed}

\* Hct::get_int for the sample colours
GetInt(hue, chroma, lstar) ==
    IF Degenerate(chroma, lstar) THEN GrayOfTone[lstar]
    ELSE GamutSearch[<<SearchHue(hue), chroma, lstar>>]

\* Hct::new: the fields set_internal_state stores
HctNew(hue, chroma, tone) ==
    HctOfArgb[GetInt(sanitize_degrees_double(hue), chroma, clamp_double(0, 100000, tone))]

\* Hct::from_int
HctFromArgb(argb) ==
    HctNew(HctOfArgb[argb].hue, HctOfArgb[argb].chroma, HctOfArgb[argb].tone)

\* Hct::to_int
HctToInt(hct) == GetInt(hct.hue, hct.chroma, hct.tone)

\* Arguments of Hct::new and Hct::get_int, with the gamut at their hue
\* and tone
RequestHues == {-30000, 40000, 360000, 400000}
RequestChromas == {800, 1200, 4800, 4194304}
RequestTones == {-5000, 30000, 50000, 150000}
\* Every chroma gives a colour of the hue until the powers of viewed
\* overflow
OverflowGamut == [top |-> 4190000, gap |-> <<1, 0>>]
Gamuts ==
    {[top |-> 0, gap |-> <<1, 0>>], [top |-> 1500, gap |-> <<1, 0>>],
     [top |-> 4000, gap |-> <<2000, 3000>>], OverflowGamut}

HctIdle ==
    /\ hc_request = [call |-> "none"]
    /\ hc_search = [hue |-> 0, lstar |-> 0, low |-> 0, mid |-> 0, high |-> 0,
                    is_first_loop |-> TRUE, answer |-> <<>>, probes |-> <<>>,
                    inner |-> 0]
    /\ hc_ret = [kind |-> "none"]
    /\ hc_iter = 0
    /\ hc_pc = "idle"
    /\ rt_trip = [color |-> 0, checked |-> FALSE]
    /\ cm_cam = [constructor |-> "none"]
    /\ hc_cam16 = [pc |-> "idle"]

\* The locals of get_int_in_viewing_conditions before its while loop
InitialSearch(hue, chroma, lstar) ==
    [hue |-> SearchHue(hue), lstar |-> lstar, low |-> 0, mid |-> chroma,
     high |-> chroma, is_first_loop |-> TRUE, answer |-> <<>>,
     probes |-> <<>>, inner |-> 0]

\* One iteration of the while loop of get_int_in_viewing_conditions: the
\* locals after it, and whether it returned the first answer
OuterIteration(search, gamut) ==
    LET possible_answer == find_cam_by_j(gamut, search.mid, search.lstar)
        probed == [search EXCEPT
                     !.probes = Append(@, [chroma |-> search.mid,
                                           found |-> possible_answer.found]),
                     !.inner = possible_answer.iterations]
        low == IF possible_answer.found THEN search.mid ELSE search.low
        high == IF possible_answer.found THEN search.high ELSE search.mid
    IN  IF search.is_first_loop
        THEN IF possible_answer.found
             THEN [returned |-> TRUE, search |-> probed]
             ELSE [returned |-> FALSE,
                   search |-> [probed EXCEPT
                                 !.is_first_loop = FALSE,
                                 !.mid = Midpoint(search.low, search.high)]]
        ELSE [returned |-> FALSE,
              search |-> [probed EXCEPT
                            !.answer = IF possible_answer.found
                                       THEN <<search.mid>> ELSE @,
                            !.low = low, !.high = high,
                            !.mid = Midpoint(low, high)]]

\* Whether the while loop comes to an end: an iteration is a function of
\* low, mid, high and is_first_loop, so one that leaves them as they are
\* is repeated for ever
RECURSIVE SearchReturns(_, _)
SearchReturns(search, gamut) ==
    IF Abs(search.low - search.high) < CHROMA_SEARCH_ENDPOINT THEN TRUE
    ELSE LET next == OuterIteration(search, gamut)
         IN  IF next.returned THEN TRUE
             ELSE IF /\ next.search.low = search.low
                     /\ next.search.mid = search.mid
                     /\ next.search.high = search.high
                     /\ next.search.is_first_loop = search.is_first_loop
             THEN FALSE
             ELSE SearchReturns(next.search, gamut)

\* Whether Hct::new(hue, chroma, tone) returns
HctNewReturns(hue, chroma, tone, gamut) ==
    \/ Degenerate(chroma, clamp_double(0, 100000, tone))
    \/ SearchReturns(InitialSearch(sanitize_degrees_double(hue), chroma,
                                   clamp_double(0, 100000, tone)), gamut)

\* get_int_in_viewing_conditions up to its while loop
GetIntBegin(hue, chroma, lstar) ==
    /\ hc_iter' = 0
    /\ IF Degenerate(chroma, lstar)
       THEN /\ hc_ret' = [kind |-> "gray", lstar |-> lstar]
            /\ hc_pc' = "done"
            /\ hc_search' = hc_search
       ELSE /\ hc_ret' = hc_ret
            /\ hc_pc' = "search"
            /\ hc_search' = InitialSearch(hue, chroma, lstar)

\* Hct::new(hue, chroma, tone), to the start of the search of its to_int
HctNewCall ==
    /\ hc_pc = "idle"
    /\ \E hue \in RequestHues, chroma \in RequestChromas, tone \in RequestTones, gamut \in Gamuts :
          /\ hc_request' = [call |-> "new", hue |-> hue, chroma |-> chroma,
                            tone |-> tone, gamut |-> gamut]
          /\ GetIntBegin(sanitize_degrees_double(hue), chroma,
                         clamp_double(0, 100000, tone))
    /\ UNCHANGED <<rt_trip, cm_cam, hc_cam16, paletteVars, scoreVars, quantVars>>

\* Hct::get_int(hue, chroma, lstar) called directly
HctGetIntCall ==
    /\ hc_pc = "idle"
    /\ \E hue \in RequestHues, chroma \in RequestChromas, tone \in RequestTones, gamut \in Gamuts :
          /\ hc_request' = [call |-> "get_int", hue |-> hue, chroma |-> chroma,
                            tone |-> tone, gamut |-> gamut]
          /\ GetIntBegin(hue, chroma, tone)
    /\ UNCHANGED <<rt_trip, cm_cam, hc_cam16, paletteVars, scoreVars, quantVars>>

\* The while loop of get_int_in_viewing_conditions, an iteration at a time
OuterStep ==
    /\ hc_pc = "search"
    /\ hc_iter < MaxOuter
    /\ Abs(hc_search.low - hc_search.high) >= CHROMA_SEARCH_ENDPOINT
    /\ hc_iter' = hc_iter + 1
    /\ \E next \in {OuterIteration(hc_search, hc_request.gamut)} :
          /\ hc_search' = next.search
          /\ IF next.returned
             THEN /\ hc_ret' = [kind |-> "cam", chroma |-> hc_search.mid]
                  /\ hc_pc' = "done"
             ELSE UNCHANGED <<hc_ret, hc_pc>>
    /\ UNCHANGED <<hc_request, rt_trip, cm_cam, hc_cam16, paletteVars, scoreVars, quantVars>>

\* The end of the while loop and the return of the answer or of the gray
OuterExit ==
    /\ hc_pc = "search"
    /\ Abs(hc_search.low - hc_search.high) < CHROMA_SEARCH_ENDPOINT
    /\ hc_ret' = IF hc_search.answer # <<>>
                 THEN [kind |-> "cam", chroma |-> hc_search.answer[1]]
                 ELSE [kind |-> "gray", lstar |-> hc_search.lstar]
    /\ hc_pc' = "done"
    /\ UNCHANGED <<hc_request, hc_search, hc_iter, rt_trip, cm_cam, hc_cam16, paletteVars, scoreVars, quantVars>>

\* get_cam16_in_viewing_conditions up to its while loop
GetCam16Begin(hue, chroma, lstar) ==
    IF Degenerate(chroma, lstar)
    THEN [pc |-> "done", iter |-> 0,
          ret |-> [kind |-> "from_int", argb |-> DegenerateArgb(lstar)]]
    ELSE [pc |-> "search", iter |-> 0,
          search |-> InitialSearch(hue, chroma, lstar)]

\* Hct::get_cam16(hue, chroma, lstar) and Hct::get_int(hue, chroma, lstar)
\* called with the same arguments
HctGetCam16Call ==
    /\ hc_pc = "idle"
    /\ hc_cam16.pc = "idle"
    /\ \E hue \in RequestHues, chroma \in RequestChromas, tone \in RequestTones, gamut \in Gamuts :
          /\ hc_request' = [call |-> "get_cam16", hue |-> hue, chroma |-> chroma,
                            tone |-> tone, gamut |-> gamut]
          /\ GetIntBegin(hue, chroma, tone)
          /\ hc_cam16' = GetCam16Begin(hue, chroma, tone)
    /\ UNCHANGED <<rt_trip, cm_cam, paletteVars, scoreVars, quantVars>>

\* The while loop of get_cam16_in_viewing_conditions, an iteration at a
\* time
Cam16OuterStep ==
    /\ hc_cam16.pc = "search"
    /\ hc_cam16.iter < MaxOuter
    /\ Abs(hc_cam16.search.low - hc_cam16.search.high) >= CHROMA_SEARCH_ENDPOINT
    /\ \E next \in {OuterIteration(hc_cam16.search, hc_request.gamut)} :
          hc_cam16' =
             IF next.returned
             THEN [pc |-> "done", iter |-> hc_cam16.iter + 1,
                   search |-> next.search,
                   ret |-> [kind |-> "cam", chroma |-> hc_cam16.search.mid]]
             ELSE [pc |-> "search", iter |-> hc_cam16.iter + 1,
                   search |-> next.search]
    /\ UNCHANGED <<hc_request, hc_search, hc_ret, hc_iter, hc_pc, rt_trip, cm_cam, paletteVars, scoreVars, quantVars>>

\* The end of the while loop of get_cam16_in_viewing_conditions: the
\* answer, or the record of the gray
Cam16OuterExit ==
    /\ hc_cam16.pc = "search"
    /\ Abs(hc_cam16.search.low - hc_cam16.search.high) < CHROMA_SEARCH_ENDPOINT
    /\ hc_cam16' =
          [pc |-> "done", iter |-> hc_cam16.iter, search |-> hc_cam16.search,
           ret |-> IF hc_cam16.search.answer # <<>>
                   THEN [kind |-> "cam", chroma |-> hc_cam16.search.answer[1]]
                   ELSE [kind |-> "from_int",
                         argb |-> GrayOfTone[hc_cam16.search.lstar]]]
    /\ UNCHANGED <<hc_request, hc_search, hc_ret, hc_iter, hc_pc, rt_trip, cm_cam, paletteVars, scoreVars, quantVars>>

\* Hct::from_int(c), then Hct::new(h.hue, h.chroma, h.tone).to_int(), and
\* Hct::new(cam.hue, cam.chroma, lstar_from_argb(c)).to_int()
RoundTrip ==
    /\ hc_pc = "pure"
    /\ \E c \in RoundTripColors :
        \E h \in {HctFromArgb(c)} :
          rt_trip' = [color |-> c, checked |-> TRUE,
                      rebuilt |-> HctToInt(HctNew(h.hue, h.chroma, h.tone)),
                      from_cam |-> HctToInt(HctFromArgb(c))]
    /\ UNCHANGED <<hc_request, hc_search, hc_ret, hc_iter, hc_pc, cm_cam, hc_cam16, paletteVars, scoreVars, quantVars>>

\* b.atan2(a) * (180 / PI) on the axes and diagonals
AtanDegrees(a, b) ==
    CASE a > 0 /\ b = 0 -> 0
      [] a > 0 /\ b > 0 -> 45000
      [] a = 0 /\ b > 0 -> 90000
      [] a < 0 /\ b > 0 -> 135000
      [] a < 0 /\ b = 0 -> 180000
      [] a < 0 /\ b < 0 -> -135000
      [] a = 0 /\ b < 0 -> -90000
      [] a > 0 /\ b < 0 -> -45000
      [] OTHER -> 0

\* The hue field of Cam16::from_int, from_jch and from_ucs
Cam16Hue(constructor, argument) ==
    CASE constructor = "from_int" -> HctOfArgb[argument].hue
      [] constructor = "from_jch" -> argument
      [] constructor = "from_ucs" ->
           IF AtanDegrees(argument[1], argument[2]) < 0
           THEN AtanDegrees(argument[1], argument[2]) + 360000
           ELSE AtanDegrees(argument[1], argument[2])

\* A call of one of the constructors of Cam16
Cam16Construct ==
    /\ hc_pc = "pure"
    /\ \E call \in ({"from_int"} \X RoundTripColors) \cup ({"from_jch"} \X RequestHues)
                   \cup ({"from_ucs"} \X ({-1, 0, 1} \X {-1, 0, 1})) :
          /\ cm_cam' = [constructor |-> call[1], hue |-> Cam16Hue(call[1], call[2])]
    /\ UNCHANGED <<hc_request, hc_search, hc_ret, hc_iter, hc_pc, rt_trip, hc_cam16, paletteVars, scoreVars, quantVars>>

HctNext == HctNewCall \/ HctGetIntCall \/ OuterStep \/ OuterExit

Cam16Next == RoundTrip \/ Cam16Construct

GetCam16Next ==
    \/ HctGetCam16Call
    \/ OuterStep
    \/ OuterExit
    \/ Cam16OuterStep
    \/ Cam16OuterExit

\* ------------------------------------------------------------------------
\* TonalPalette
\* ------------------------------------------------------------------------
\* Option<f64>: None is the empty tuple, Some(x) the tuple of x
None == <<>>
Some(x) == <<x>>

COMMON_TONES == <<0, 10, 20, 30, 40, 50, 60, 70, 80, 90, 95, 99, 100>>
COMMON_SIZE == Len(COMMON_TONES)

\* Hct::new(hue, chroma, tone).to_int() for the hue and chroma of
\* 0xff0000ff (hue 282.788, chroma 87.231) and for hue 25, chroma 84, as
\* the gamut search computes it; keys are <<chroma * 1000, tone>>.
BlueTones ==
    (<<87231, 0>> :> -16777216) @@ (<<87231, 3>> :> -16777154) @@
    (<<87231, 10>> :> -16777105) @@ (<<87231, 20>> :> -16777043) @@
    (<<87231, 30>> :> -16776976) @@ (<<87231, 40>> :> -13419265) @@
    (<<87231, 50>> :> -10918657) @@ (<<87231, 60>> :> -8747521) @@
    (<<87231, 70>> :> -6511361) @@ (<<87231, 80>> :> -4340993) @@
    (<<87231, 90>> :> -2105089) @@ (<<40000, 90>> :> -2105089) @@
    (<<87231, 95>> :> -987137) @@ (<<40000, 95>> :> -987137) @@
    (<<87231, 99>> :> -66561) @@ (<<40000, 99>> :> -66561) @@
    (<<87231, 100>> :> -1) @@ (<<40000, 100>> :> -1)

ErrorTones ==
    (<<84000, 0>> :> -16777216) @@ (<<84000, 3>> :> -14614271) @@
    (<<84000, 10>> :> -12517375) @@ (<<84000, 20>> :> -9961469) @@
    (<<84000, 30>> :> -7143418) @@ (<<84000, 40>> :> -4580581) @@
    (<<84000, 50>> :> -2279632) @@ (<<84000, 60>> :> -43959) @@
    (<<84000, 70>> :> -30342) @@ (<<84000, 80>> :> -19287) @@
    (<<40000, 90>> :> -9516) @@ (<<40000, 95>> :> -4631) @@
    (<<40000, 99>> :> -197380) @@ (<<40000, 100>> :> -1)

\* and for the hue of 0xffff0000 (27.408) with the chroma 2^22
RedTones ==
    (<<4194304, 0>> :> -16777216) @@ (<<40000, 90>> :> -9517) @@
    (<<40000, 100>> :> -1)

BlueHue == 282788
ErrorHue == 25000
RedHue == 27408

\* Hct::new(hue, chroma, tone).to_int(); tone is clamped by Hct::new
HctNewToInt(hue, chroma, tone) ==
    IF hue = BlueHue THEN BlueTones[<<chroma, clamp_double(0, 100, tone)>>]
    ELSE IF hue = RedHue THEN RedTones[<<chroma, clamp_double(0, 100, tone)>>]
    ELSE ErrorTones[<<chroma, clamp_double(0, 100, tone)>>]

\* Arguments of the constructors and of tone
ColorLists ==
    {[i \in 1..COMMON_SIZE |-> i - 1], [i \in 1..COMMON_SIZE |-> Red],
     [i \in 1..(COMMON_SIZE - 1) |-> i - 1]}
HueChromaPairs == {<<BlueHue, 87231>>, <<ErrorHue, 84000>>, <<RedHue, 4194304>>}
ToneValues == {0, 3, 50, 90, 100, 250}

CacheHas(cache, tone_value) ==
    \E k \in 1..Len(cache) : cache[k].tone = tone_value
CacheGet(cache, tone_value) ==
    cache[CHOOSE k \in 1..Len(cache) : cache[k].tone = tone_value].argb

\* Mutation of ToneFromList: a tone that is not in the cache yields the
\* first colour of the list.
ToneFromListLenient(cache, tone_value) ==
    IF ~CacheHas(cache, tone_value)
    THEN [ok |-> TRUE, value |-> cache[1].argb]
    ELSE [ok |-> TRUE, value |-> CacheGet(cache, tone_value)]

\* tone, for a palette without hue and chroma (built by from_list)
ToneFromList(cache, tone_value) ==
    IF ~CacheHas(cache, tone_value)
    THEN [ok |-> FALSE, value |-> "ArgumentError"]
    ELSE [ok |-> TRUE, value |-> CacheGet(cache, tone_value)]

\* The chroma tone asks of Hct::new
ToneChroma(chroma, tone_value) ==
    IF tone_value >= 90 THEN Min(chroma, 40000) ELSE chroma

\* tone, for a palette with hue and chroma: the cache after
\* self.cache.entry(tone_value).or_insert_with(..)
ToneEntry(cache, hue, chroma, tone_value) ==
    IF CacheHas(cache, tone_value) THEN cache
    ELSE Append(cache, [tone |-> tone_value,
                        argb |-> HctNewToInt(hue, ToneChroma(chroma, tone_value),
                                             tone_value)])

\* Whether tone returns: a cached tone is answered from the cache, any
\* other by Hct::new
ToneReturns(cache, hue, chroma, tone_value) ==
    \/ CacheHas(cache, tone_value)
    \/ HctNewReturns(hue, ToneChroma(chroma, tone_value), tone_value * 1000,
                     OverflowGamut)

PaletteNew ==
    /\ tp_colors = <<>>
    /\ tp_hue = None
    /\ tp_chroma = None
    /\ tp_cache = <<>>
    /\ tp_ret = [call |-> "none"]
    /\ tp_calls = 0
    /\ tp_pc = "new"
    /\ tp_pair = [pc |-> "new"]

\* TonalPalette::from_list
TonalFromList ==
    /\ tp_pc = "new"
    /\ \E colors \in ColorLists :
          /\ tp_colors' = colors
          /\ IF Len(colors) # COMMON_SIZE
             THEN /\ tp_pc' = "panicked"
                  /\ tp_cache' = tp_cache
             ELSE /\ tp_pc' = "ready"
                  /\ tp_cache' = [i \in 1..COMMON_SIZE |->
                                    [tone |-> COMMON_TONES[i], argb |-> colors[i]]]
    /\ UNCHANGED <<tp_hue, tp_chroma, tp_ret, tp_calls, tp_pair, hctVars, scoreVars, quantVars>>

\* TonalPalette::of
TonalOf ==
    /\ tp_pc = "new"
    /\ \E pair \in HueChromaPairs :
          /\ tp_hue' = Some(pair[1])
          /\ tp_chroma' = Some(pair[2])
    /\ tp_pc' = "ready"
    /\ UNCHANGED <<tp_colors, tp_cache, tp_ret, tp_calls, tp_pair, hctVars, scoreVars, quantVars>>

\* TonalPalette::tone
TonalTone ==
    /\ tp_pc = "ready"
    /\ tp_calls < MaxToneCalls
    /\ tp_calls' = tp_calls + 1
    /\ \E tone_value \in ToneValues :
          IF tp_hue = None \/ tp_chroma = None
          THEN /\ tp_ret' = [call |-> "tone", tone |-> tone_value,
                             result |-> ToneFromList(tp_cache, tone_value)]
               /\ UNCHANGED <<tp_cache, tp_pc>>
          ELSE IF ~ToneReturns(tp_cache, tp_hue[1], tp_chroma[1], tone_value)
          THEN /\ tp_ret' = [call |-> "tone", tone |-> tone_value,
                             result |-> [ok |-> FALSE, value |-> "no return"]]
               /\ tp_pc' = "searching"
               /\ tp_cache' = tp_cache
          ELSE \E cache \in {ToneEntry(tp_cache, tp_hue[1], tp_chroma[1], tone_value)} :
                 /\ tp_cache' = cache
                 /\ tp_pc' = tp_pc
                 /\ tp_ret' = [call |-> "tone", tone |-> tone_value,
                               result |-> [ok |-> TRUE,
                                           value |-> CacheGet(cache, tone_value)]]
    /\ UNCHANGED <<tp_colors, tp_hue, tp_chroma, tp_pair, hctVars, scoreVars, quantVars>>

\* The cache after the tone calls of as_list, tone k of COMMON_TONES on,
\* up to the first that does not return
RECURSIVE AsListCache(_, _, _, _)
AsListCache(cache, hue, chroma, k) ==
    IF k > COMMON_SIZE THEN cache
    ELSE IF ~ToneReturns(cache, hue, chroma, COMMON_TONES[k]) THEN cache
    ELSE AsListCache(ToneEntry(cache, hue, chroma, COMMON_TONES[k]),
                     hue, chroma, k + 1)

\* TonalPalette::as_list
TonalAsList ==
    /\ tp_pc = "ready"
    /\ tp_calls < MaxToneCalls
    /\ tp_calls' = tp_calls + 1
    /\ IF tp_hue = None \/ tp_chroma = None
       THEN /\ UNCHANGED <<tp_cache, tp_pc>>
            /\ tp_ret' = [call |-> "as_list",
                          result |-> [k \in 1..COMMON_SIZE |->
                                        ToneFromList(tp_cache, COMMON_TONES[k]).value]]
       ELSE \E cache \in {AsListCache(tp_cache, tp_hue[1], tp_chroma[1], 1)} :
              /\ tp_cache' = cache
              /\ IF \A k \in 1..COMMON_SIZE : CacheHas(cache, COMMON_TONES[k])
                 THEN /\ tp_pc' = tp_pc
                      /\ tp_ret' = [call |-> "as_list",
                                    result |-> [k \in 1..COMMON_SIZE |->
                                                  CacheGet(cache, COMMON_TONES[k])]]
                 ELSE /\ tp_pc' = "searching"
                      /\ tp_ret' = [call |-> "as_list", result |-> <<>>]
    /\ UNCHANGED <<tp_colors, tp_hue, tp_chroma, tp_pair, hctVars, scoreVars, quantVars>>

PaletteNext == TonalFromList \/ TonalOf \/ TonalTone \/ TonalAsList

\* The palettes of a pair: TonalPalette::of a hue and chroma, and
\* TonalPalette::from_list of a list of COMMON_SIZE colours
PairLists ==
    {[i \in 1..COMMON_SIZE |-> i - 1], [i \in 1..COMMON_SIZE |-> 0],
     [i \in 1..COMMON_SIZE |-> Red], [i \in 1..COMMON_SIZE |-> Black]}
PairPalettes ==
    {[hue |-> Some(pair[1]), chroma |-> Some(pair[2]), cache |-> <<>>] :
        pair \in HueChromaPairs}
    \cup {[hue |-> None, chroma |-> None,
           cache |-> [i \in 1..COMMON_SIZE |->
                        [tone |-> COMMON_TONES[i], argb |-> colors[i]]]] :
             colors \in PairLists}

\* self.cache.values() collected into a set
CacheValues(palette) == {palette.cache[k].argb : k \in 1..Len(palette.cache)}

\* PartialEq::eq of TonalPalette
eq(self, other) ==
    IF self.hue # None /\ self.chroma # None
    THEN self.hue = other.hue /\ self.chroma = other.chroma
    ELSE CacheValues(self) \ CacheValues(other) = {}

\* tone on one palette of a pair: the palette after the call
PaletteAfterTone(palette, tone_value) ==
    IF palette.hue = None \/ palette.chroma = None THEN palette
    ELSE [palette EXCEPT
            !.cache = ToneEntry(@, palette.hue[1], palette.chroma[1], tone_value)]

\* Two palettes are built
PairNew ==
    /\ tp_pair.pc = "new"
    /\ tp_pc = "new"
    /\ \E a \in PairPalettes, b \in PairPalettes :
          tp_pair' = [pc |-> "ready", a |-> a, b |-> b, calls |-> 0]
    /\ UNCHANGED <<tp_colors, tp_hue, tp_chroma, tp_cache, tp_ret, tp_calls, tp_pc, hctVars, scoreVars, quantVars>>

\* TonalPalette::tone on a or on b
PairTone ==
    /\ tp_pair.pc = "ready"
    /\ tp_pair.calls < MaxToneCalls
    /\ \E side \in {"a", "b"}, tone_value \in ToneValues :
        \E palette \in {IF side = "a" THEN tp_pair.a ELSE tp_pair.b} :
          IF /\ palette.hue # None
             /\ palette.chroma # None
             /\ ~ToneReturns(palette.cache, palette.hue[1], palette.chroma[1],
                             tone_value)
          THEN tp_pair' = [tp_pair EXCEPT !.pc = "searching",
                                          !.calls = @ + 1]
          ELSE tp_pair' =
                 [tp_pair EXCEPT
                    !.calls = @ + 1,
                    !.a = IF side = "a"
                          THEN PaletteAfterTone(palette, tone_value) ELSE @,
                    !.b = IF side = "b"
                          THEN PaletteAfterTone(palette, tone_value) ELSE @]
    /\ UNCHANGED <<tp_colors, tp_hue, tp_chroma, tp_cache, tp_ret, tp_calls, tp_pc, hctVars, scoreVars, quantVars>>

\* a == b and b == a
PairEq ==
    /\ tp_pair.pc = "ready"
    /\ tp_pair' = [pc |-> "compared", a |-> tp_pair.a, b |-> tp_pair.b,
                   calls |-> tp_pair.calls,
                   ab |-> eq(tp_pair.a, tp_pair.b),
                   ba |-> eq(tp_pair.b, tp_pair.a)]
    /\ UNCHANGED <<tp_colors, tp_hue, tp_chroma, tp_cache, tp_ret, tp_calls, tp_pc, hctVars, scoreVars, quantVars>>

PairNext == PairNew \/ PairTone \/ PairEq

vars == <<scoreVars, quantVars, colorVars>>

\* A quantizer call, with score not yet called.
QuantizeInit == QuantInit /\ ScoreInit /\ PaletteNew /\ HctIdle

SpecQuantize ==
    /\ QuantizeInit
    /\ [][QuantNext]_vars

\* Pixels for create_cubes: two colours in the histogram cell of black,
\* green, two close reds in neighbouring cells, and two in the cell of red
Green == argb_from_rgb(0, 255, 0)
Red247 == argb_from_rgb(247, 0, 0)
Red248 == argb_from_rgb(248, 0, 0)
CubePalette == <<Black, NearBlack, Green, Red247, Red248, NearRed, Red>>
CubeSequences ==
    {[k \in 1..Cardinality(chosen) |-> CubePalette[Ascending(chosen)[k]]] :
        chosen \in SUBSET (1..Len(CubePalette))}

\* A call of QuantizerWu::quantize on some of these pixels
CubeInit ==
    /\ q_kind = "wu"
    /\ q_pixels \in CubeSequences
    /\ q_max_colors \in 1..MaxColors
    /\ QuantFresh
    /\ ws_max_iterations = MAX_ITERATIONS

WuNext ==
    \/ WuStart
    \/ WuCutStep
    \/ WuResult

QuantizeCubeInit == CubeInit /\ ScoreInit /\ PaletteNew /\ HctIdle

SpecWuCubes ==
    /\ QuantizeCubeInit
    /\ [][WuNext]_vars

\* QuantizerWu up to compute_moments, then one box measured
BoxInit ==
    /\ q_kind = "wu"
    /\ q_pixels \in PixelSequences
    /\ q_max_colors = 1
    /\ QuantFresh
    /\ ws_max_iterations = MAX_ITERATIONS

BoxNext ==
    \/ WuStart
    \/ WuMeasure

QuantizeBoxInit == BoxInit /\ ScoreInit /\ PaletteNew /\ HctIdle

SpecWuBox ==
    /\ QuantizeBoxInit
    /\ [][BoxNext]_vars

\* Pixels of every kind of alpha: opaque, half transparent (0x80ff0000)
\* and fully transparent (0x00ff0000)
ClearRed == 255 * 65536
AlphaColors == {Black, Red, HalfRed, ClearRed}
AlphaSequences == UNION {[1..n -> AlphaColors] : n \in 0..MaxPixels}

\* QuantizerWu or QuantizerCelebi called on such pixels
AlphaInit ==
    /\ q_kind \in {"wu", "celebi"}
    /\ q_pixels \in AlphaSequences
    /\ q_max_colors \in 1..MaxColors
    /\ QuantFresh
    /\ ws_max_iterations = MAX_ITERATIONS

CelebiNext ==
    \/ WuStart
    \/ WuCutStep
    \/ WuResult
    \/ WsStart
    \/ WsIterate
    \/ WsFinish

QuantizeAlphaInit == AlphaInit /\ ScoreInit /\ PaletteNew /\ HctIdle

SpecAlpha ==
    /\ QuantizeAlphaInit
    /\ [][CelebiNext]_vars

\* One call of QuantizerWsmeans::quantize.
WsmeansNext ==
    \/ WsStart
    \/ WsIterate
    \/ WsFinish

QuantizeWsmeansInit == WsmeansInit /\ ScoreInit /\ PaletteNew /\ HctIdle

SpecWsmeans ==
    /\ QuantizeWsmeansInit
    /\ [][WsmeansNext]_vars

\* A quantizer call on n copies of one colour.
QuantizeRunInit == RunInit /\ ScoreInit /\ PaletteNew /\ HctIdle

SpecQuantizeRun ==
    /\ QuantizeRunInit
    /\ [][QuantNext]_vars

\* A quantizer call on a set of distinct colours, max_colors >= |set|.
QuantizeSetInit == SetInit /\ ScoreInit /\ PaletteNew /\ HctIdle

SpecQuantizeSet ==
    /\ QuantizeSetInit
    /\ [][QuantNext]_vars

\* The caller of score, with the quantizers idle.
QuantIdle ==
    /\ q_kind = "wu"
    /\ q_pixels = <<>>
    /\ q_max_colors = 1
    /\ q_pc = "idle"
    /\ wu_hist = <<>>
    /\ wu_cubes = <<>>
    /\ wu_volume_variance = <<>>
    /\ wu_next = 0
    /\ wu_i = 1
    /\ wu_generated = 0
    /\ wu_result = <<>>
    /\ wu_box = <<>>
    /\ ws_starting = <<>>
    /\ ws_max_iterations = MAX_ITERATIONS
    /\ ws_picks = <<>>
    /\ ws_clusters = <<>>
    /\ ws_cluster_indices = <<>>
    /\ ws_pixel_count_sums = <<>>
    /\ ws_iteration = 0
    /\ ws_result = <<>>
    /\ ws_run = 1
    /\ ws_first_result = <<>>

ScoringInit == ScoreInit /\ QuantIdle /\ PaletteNew /\ HctIdle

SpecScore ==
    /\ ScoringInit
    /\ [][ScoreNext]_vars

PaletteInit == PaletteNew /\ ScoreInit /\ QuantIdle /\ HctIdle

SpecPalette ==
    /\ PaletteInit
    /\ [][PaletteNext]_vars

HctInit == HctIdle /\ PaletteNew /\ ScoreInit /\ QuantIdle

SpecHct ==
    /\ HctInit
    /\ [][HctNext]_vars

\* Two palettes, tones asked of them, and their comparison
SpecPair ==
    /\ PaletteInit
    /\ [][PairNext]_vars

\* get_cam16 and get_int called with the same arguments
SpecGetCam16 ==
    /\ HctInit
    /\ [][GetCam16Next]_vars

\* Cam16 constructors and Hct conversions applied to colours, no search
\* in progress
Cam16Init ==
    /\ hc_pc = "pure"
    /\ hc_request = [call |-> "none"]
    /\ hc_search = [hue |-> 0, lstar |-> 0, low |-> 0, mid |-> 0, high |-> 0,
                    is_first_loop |-> TRUE, answer |-> <<>>, probes |-> <<>>,
                    inner |-> 0]
    /\ hc_ret = [kind |-> "none"]
    /\ hc_iter = 0
    /\ rt_trip = [color |-> 0, checked |-> FALSE]
    /\ cm_cam = [constructor |-> "none"]
    /\ hc_cam16 = [pc |-> "idle"]
    /\ PaletteNew /\ ScoreInit /\ QuantIdle

SpecCam16 ==
    /\ Cam16Init
    /\ [][Cam16Next]_vars

\* ========================================================================
ScoreDone == sc_pc = "done"

\* The colours that were scored (argb_to_score's keys), in insertion order.
Candidates == FilteredColors(sc_map, sc_hue_proportion, sc_filter)

InResult(c) == \E i \in 1..Len(sc_result) : sc_result[i] = c

MapIndex(c) == CHOOSE i \in 1..Len(sc_map) : sc_map[i].argb = c

\* x is scanned before y by the selection: higher score, or equal score
\* and inserted earlier.
RankedBefore(x, y) ==
    LET sx == ScoreOf(sc_map, sc_hue_proportion, x)
        sy == ScoreOf(sc_map, sc_hue_proportion, y)
    IN  \/ sx > sy
        \/ sx = sy /\ MapIndex(x) < MapIndex(y)

HueDifference2(x, y) ==
    LET a == HctFromInt(x).hue2
        b == HctFromInt(y).hue2
        d == IF a >= b THEN a - b ELSE b - a
    IN  IF d <= 360 THEN d ELSE 720 - d

\* C2: for every input map and every desired >= 1 the returned list has
\* length at most desired.
C2_LengthAtMostDesired ==
    ScoreDone => Len(sc_result) <= sc_desired

\* C3: score always returns at least one colour, and when no input colour
\* survives filtering and selection the result is exactly <<0xff4285f4>>.
C3_AlwaysReturnsAColor ==
    sc_pc # "build" =>
        /\ ScoreDone
        /\ Len(sc_result) >= 1
        /\ (Candidates = <<>> => sc_result = <<GoogleBlue>>)

\* C4: with filter = true no returned colour other than the fallback has
\* chroma < 5, tone < 10 or excited proportion below 0.01.
C4_FilterExcludesUnsuitable ==
    (ScoreDone /\ sc_filter /\ sc_result # <<GoogleBlue>>) =>
        \A i \in 1..Len(sc_result) :
            /\ HctFromInt(sc_result[i]).chroma >= 5
            /\ HctFromInt(sc_result[i]).tone >= 10
            /\ 100 * sc_hue_proportion[sc_result[i]] >= PopulationSum(sc_map)

\* Any two distinct returned colours are at least 15 degrees apart in hue.
ResultHuesApart ==
    (ScoreDone /\ sc_result # <<GoogleBlue>>) =>
        \A i, j \in 1..Len(sc_result) :
            i # j => HueDifference2(sc_result[i], sc_result[j]) >= 2 * 15

\* C5 as stated: returned colours are pairwise at least 15 degrees apart,
\* and of two candidates within 15 degrees of each other only the
\* higher-scored (on equal score the earlier-inserted) one is returned: the
\* other one is never in the result.
C5_OnlyHigherScoredReturned ==
    /\ ResultHuesApart
    /\ (ScoreDone /\ sc_result # <<GoogleBlue>>) =>
          \A x, y \in Range(Candidates) :
              (x # y /\ RankedBefore(x, y) /\ HueDifference2(x, y) < 2 * 15)
                  => ~InResult(y)

\* C5 amended: returned colours are pairwise at least 15 degrees apart; of
\* two candidates within 15 degrees of each other at most one is returned,
\* and a candidate is left out only if a colour ranked before it and closer
\* to it than the final separation threshold is returned.
C5_AtMostOneOfNearbyHues ==
    /\ ResultHuesApart
    /\ (ScoreDone /\ sc_result # <<GoogleBlue>>) =>
          /\ \A x, y \in Range(Candidates) :
                (x # y /\ HueDifference2(x, y) < 2 * 15)
                    => ~(InResult(x) /\ InResult(y))
          /\ \A x \in Range(Candidates) :
                ~InResult(x) =>
                    \E z \in Range(Candidates) :
                        /\ InResult(z)
                        /\ RankedBefore(z, x)
                        /\ HueDifference2(z, x) < 2 * sc_degrees

\* C5 witness: a chain of three candidates: the middle one is dropped as a
\* duplicate of the first, the last one is within 15 degrees of the middle
\* one and is returned.
C5_Witness ==
    /\ ScoreDone
    /\ sc_degrees = 15
    /\ \E x, y, z \in Range(Candidates) :
          /\ RankedBefore(x, y) /\ RankedBefore(y, z)
          /\ HueDifference2(x, y) < 30 /\ HueDifference2(y, z) < 30
          /\ InResult(x) /\ ~InResult(y) /\ InResult(z)

\* C6: the returned list is ordered by non-increasing score, and returned
\* colours with equal excited proportion are in descending chroma order.
C6_ResultSortedByScore ==
    (ScoreDone /\ sc_result # <<GoogleBlue>> /\ ~ProportionIsNaN(sc_map)) =>
        \A i, j \in 1..Len(sc_result) :
            i < j =>
                /\ ScoreOf(sc_map, sc_hue_proportion, sc_result[i])
                      >= ScoreOf(sc_map, sc_hue_proportion, sc_result[j])
                /\ (sc_hue_proportion[sc_result[i]]
                        = sc_hue_proportion[sc_result[j]]
                      => HctFromInt(sc_result[i]).chroma
                            >= HctFromInt(sc_result[j]).chroma)

\* C6 witness: a returned list whose order differs from the insertion
\* order of the map, with two colours of equal excited proportion.
C6_Witness ==
    /\ ScoreDone
    /\ Len(sc_result) >= 2
    /\ \E i, j \in 1..Len(sc_result) :
          /\ i < j
          /\ MapIndex(sc_result[i]) > MapIndex(sc_result[j])
          /\ sc_hue_proportion[sc_result[i]] = sc_hue_proportion[sc_result[j]]
          /\ HctFromInt(sc_result[i]).chroma > HctFromInt(sc_result[j]).chroma

\* The colours a greedy pass at threshold t keeps: scanning in descending
\* score, a colour is kept iff its hue is at least t degrees from every
\* colour kept before it.  earlier[x] are the colours scanned before x and
\* apart[x][y] the hue difference of x and y in half degrees.
GreedyKept(t, earlier, apart) ==
    CHOOSE kept \in SUBSET (DOMAIN earlier) :
        \A x \in DOMAIN earlier :
            x \in kept <=> \A y \in kept \cap earlier[x] : apart[x][y] >= 2 * t

ScannedEarlier ==
    [x \in Range(Candidates) |->
        {y \in Range(Candidates) : RankedBefore(y, x)}]

HuesApart ==
    [x \in Range(Candidates) |->
        [y \in Range(Candidates) |-> HueDifference2(x, y)]]

Thresholds == 15..90

BucketDistance(a, b) ==
    LET d == IF a >= b THEN a - b ELSE b - a
    IN  IF d <= 180 THEN d ELSE 360 - d

\* C7: a colour's excited proportion is the histogram mass of the hues
\* within 15 degrees on either side of its own hue bucket (a window
\* symmetric about that bucket, wrapping at 360), and the window contains
\* the colour's own bucket.
C7_SymmetricWindow ==
    sc_pc # "build" =>
        \A c \in Range(Keys(sc_map)) :
            /\ sc_hue_proportion[c]
                  = SumSeq([i \in 1..Len(sc_map) |->
                      IF BucketDistance(HueFloor(sc_map[i].argb), HueFloor(c)) <= 15
                      THEN sc_map[i].population ELSE 0])
            /\ HueFloor(c) \in Range(ExcitedWindow(c))

\* ========================================================================
\* Properties of the quantizers
\* ========================================================================
QuantDone == q_pc = "done"

\* C1: QuantizerWu::quantize returns without failing for every non-empty
\* pixel sequence and every max_colors >= 1: no failed signed/unsigned
\* conversion, no arithmetic fault, also when a cube whose lower bound is
\* above the histogram origin is examined for a further cut.
C1_WuNeverFails ==
    (q_kind = "wu" /\ Len(q_pixels) > 0) => q_pc # "panicked"

\* Population of the clusters whose centroid converts to argb
ClusterPopulation(argb) ==
    SumSeq([c \in 1..Len(ws_clusters) |->
              IF to_int(ws_clusters[c]) = argb
              THEN ws_pixel_count_sums[c] ELSE 0])

ResultTotal == SumSeq([k \in 1..Len(ws_result) |-> ws_result[k].count])

\* C8: in the QuantizerWsmeans result, the entry of an ARGB value holds the
\* sum of the populations of all final clusters whose centroid converts to
\* that value, and the populations of the result total the number of input
\* pixels.
C8_DuplicateCentroidsSummed ==
    (q_kind = "wsmeans" /\ QuantDone) =>
        /\ \A k \in 1..Len(ws_result) :
              ws_result[k].count = ClusterPopulation(ws_result[k].argb)
        /\ ResultTotal = Len(q_pixels)

\* C9: quantize (Wu, WSMeans or Celebi) called with an empty pixel sequence
\* fails; it never returns a result.
C9_EmptyInputFails ==
    Len(q_pixels) = 0 => ~QuantDone

\* Colours of the result of the call, in result order
ResultColors ==
    IF q_kind = "wu" THEN [k \in 1..Len(wu_result) |-> wu_result[k].argb]
    ELSE [k \in 1..Len(ws_result) |-> ws_result[k].argb]

IsRun == Len(q_pixels) >= 1 /\ \A i \in 1..Len(q_pixels) : q_pixels[i] = q_pixels[1]

\* C11: quantizing n >= 1 copies of one opaque colour c with max_colors >= 1
\* never fails and returns exactly one colour, c, with Wu, WSMeans and
\* Celebi; with WSMeans and Celebi the population of c is n.
C11_SingleColorKept ==
    (IsRun /\ alpha_from_argb(q_pixels[1]) = 255) =>
        /\ q_pc # "panicked"
        /\ QuantDone =>
              /\ ResultColors = <<q_pixels[1]>>
              /\ q_kind # "wu" => ws_result[1].count = Len(q_pixels)

\* C12: for a pixel sequence listing each colour of a set S of distinct
\* opaque colours once and max_colors >= |S|, the quantizer does not fail
\* and the colours of its result are exactly S, also when two colours of S
\* share a 5-bit histogram cell.
C12_Idempotent ==
    (/\ \A i \in 1..Len(q_pixels) : IsOpaque(q_pixels[i])
     /\ Cardinality(Range(q_pixels)) = Len(q_pixels)
     /\ Len(q_pixels) >= 1
     /\ q_max_colors >= Len(q_pixels)) =>
        /\ q_pc # "panicked"
        /\ QuantDone => /\ Range(ResultColors) = Range(q_pixels)
                        /\ Len(ResultColors) = Len(q_pixels)

\* The cluster an exhaustive comparison of the point with all centroids
\* chooses: the first centroid at the least distance when that is less
\* than the distance to the previous centroid, else the previous cluster.
ExhaustiveIndex(point, clusters, previous_cluster_index) ==
    LET least == CHOOSE d \in {distance(point, clusters[j]) : j \in 1..Len(clusters)} :
                    \A j \in 1..Len(clusters) : d <= distance(point, clusters[j])
        first == CHOOSE j \in 1..Len(clusters) :
                    /\ distance(point, clusters[j]) = least
                    /\ \A k \in 1..(j - 1) : distance(point, clusters[k]) # least
    IN  IF least < distance(point, clusters[previous_cluster_index + 1])
        THEN first - 1 ELSE previous_cluster_index

\* Centroid j is skipped by the pruning test for point i in the coming
\* reassignment.
Pruned(i, j) ==
    distance(ws_clusters[ws_cluster_indices[i] + 1], ws_clusters[j])
        >= 4 * distance(WsPoints[i], ws_clusters[ws_cluster_indices[i] + 1])

\* C20: in every iteration of WSMeans the pruned reassignment puts each
\* point into the cluster an exhaustive comparison with all centroids
\* chooses, and no centroid is strictly closer to the point than the one
\* it is assigned to.
C20_PruningKeepsAssignment ==
    [][q_pc = "ws_iterate" =>
         \A points \in {WsPoints} : \A i \in 1..Len(points) :
            /\ ws_cluster_indices'[i] =
                  ExhaustiveIndex(points[i], ws_clusters, ws_cluster_indices[i])
            /\ \A j \in 1..Len(ws_clusters) :
                  distance(points[i], ws_clusters[j]) >=
                    distance(points[i], ws_clusters[ws_cluster_indices'[i] + 1])]_vars

\* An iteration has run and in the coming one the pruning skips another
\* centroid for a point that is not on its own centroid, while some point
\* is about to move.
C20_Witness ==
    /\ q_pc = "ws_iterate"
    /\ ws_iteration >= 1
    /\ \E i \in 1..Len(WsPoints) : \E j \in 1..Len(ws_clusters) :
          /\ j # ws_cluster_indices[i] + 1
          /\ distance(WsPoints[i], ws_clusters[ws_cluster_indices[i] + 1]) > 0
          /\ Pruned(i, j)
    /\ \E i \in 1..Len(WsPoints) :
          Reassign(WsPoints, ws_clusters, ws_cluster_indices)[i] # -1

\* The histogram cells of the box summed one by one
DirectSum(hist, cube, table) ==
    SumSeq([i \in 1..Len(hist) |->
              IF /\ cube.r0 < hist[i].i_r /\ hist[i].i_r <= cube.r1
                 /\ cube.g0 < hist[i].i_g /\ hist[i].i_g <= cube.g1
                 /\ cube.b0 < hist[i].i_b /\ hist[i].i_b <= cube.b1
              THEN hist[i][table] ELSE 0])

\* The part of the box up to the position along the direction
BoxBelow(cube, direction, position) ==
    CASE direction = "Red" -> [cube EXCEPT !.r1 = position]
      [] direction = "Green" -> [cube EXCEPT !.g1 = position]
      [] direction = "Blue" -> [cube EXCEPT !.b1 = position]

\* C24: after compute_moments, for every box volume returns the sum of
\* the histogram cells of the box, and top(box, dir, p) + bottom(box, dir)
\* is the sum over the part of the box below p along dir; none of the
\* three calls fails.
C24_InclusionExclusion ==
    q_pc = "measured" =>
        /\ wu_box.volume # Fault
        /\ wu_box.volume = DirectSum(wu_hist, wu_box.cube, wu_box.table)
        /\ wu_box.top # Fault /\ wu_box.bottom # Fault
        /\ wu_box.top + wu_box.bottom =
              DirectSum(wu_hist,
                        BoxBelow(wu_box.cube, wu_box.direction, wu_box.position),
                        wu_box.table)

\* Cubes of non-zero weight among the max_colors cubes
NonEmptyCubes ==
    {k \in 1..Len(wu_cubes) : volume(wu_hist, wu_cubes[k], "weights") > 0}

\* C22: when create_cubes has finished with fewer than max_colors
\* non-empty cubes, no cube is left with a positive variance: a cut that
\* fails does not use up one of the max_colors cubes.
C22_CutsUntilNoVariance ==
    (q_pc \in {"wu_result", "done"} /\ q_kind = "wu"
       /\ Cardinality(NonEmptyCubes) < q_max_colors) =>
        \A k \in 1..Len(wu_cubes) :
           VarianceNotPositive(wu_volume_variance[k])

\* The cubes create_cubes has set up so far: the first one and every cube
\* a cut has written
CubesInUse == {k \in 1..Len(wu_cubes) : wu_cubes[k] # DefaultCube}

CellsOf(cube) ==
    (cube.r1 - cube.r0) * (cube.g1 - cube.g0) * (cube.b1 - cube.b0)

IsBox(cube) ==
    /\ 0 <= cube.r0 /\ cube.r0 < cube.r1 /\ cube.r1 <= MAX_INDEX
    /\ 0 <= cube.g0 /\ cube.g0 < cube.g1 /\ cube.g1 <= MAX_INDEX
    /\ 0 <= cube.b0 /\ cube.b0 < cube.b1 /\ cube.b1 <= MAX_INDEX

BoxesDisjoint(a, b) ==
    \/ a.r1 <= b.r0 \/ b.r1 <= a.r0
    \/ a.g1 <= b.g0 \/ b.g1 <= a.g0
    \/ a.b1 <= b.b0 \/ b.b1 <= a.b0

\* The cubes in use are disjoint boxes covering (0, 32]^3, and their
\* weights add up to the weight of the histogram
CubesPartition(cubes, in_use) ==
    /\ \A k \in in_use : IsBox(cubes[k])
    /\ \A k, l \in in_use : k # l => BoxesDisjoint(cubes[k], cubes[l])
    /\ SumSeq([k \in 1..Len(cubes) |->
                 IF k \in in_use THEN CellsOf(cubes[k]) ELSE 0])
          = MAX_INDEX * MAX_INDEX * MAX_INDEX
    /\ SumSeq([k \in 1..Len(cubes) |->
                 IF k \in in_use THEN DirectSum(wu_hist, cubes[k], "weights")
                 ELSE 0])
          = SumSeq([i \in 1..Len(wu_hist) |-> wu_hist[i].weights])

\* The step cut cube `next` into itself and a new cube: the two tile the
\* old cube and both hold weight
CutTiles(old, one, two) ==
    /\ IsBox(one) /\ IsBox(two) /\ BoxesDisjoint(one, two)
    /\ CellsOf(one) + CellsOf(two) = CellsOf(old)
    /\ old.r0 <= one.r0 /\ one.r1 <= old.r1 /\ old.r0 <= two.r0 /\ two.r1 <= old.r1
    /\ old.g0 <= one.g0 /\ one.g1 <= old.g1 /\ old.g0 <= two.g0 /\ two.g1 <= old.g1
    /\ old.b0 <= one.b0 /\ one.b1 <= old.b1 /\ old.b0 <= two.b0 /\ two.b1 <= old.b1
    /\ DirectSum(wu_hist, one, "weights") > 0
    /\ DirectSum(wu_hist, two, "weights") > 0

\* C26: while create_cubes runs, the cubes in use are pairwise disjoint
\* boxes whose union is (0, 32]^3 and whose weights add up to the weight
\* of the histogram; every successful cut replaces one cube by two boxes
\* of non-zero weight that tile it; the result has at most max_colors
\* colours.
C26_CubePartition ==
    [][/\ (q_pc' \in {"wu_cubes", "wu_result"} /\ wu_hist' = wu_hist) =>
            CubesPartition(wu_cubes', {k \in 1..Len(wu_cubes') :
                                         wu_cubes'[k] # DefaultCube})
       /\ (q_pc = "wu_cubes" /\ wu_cubes' # wu_cubes) =>
            /\ wu_cubes[wu_i + 1] = DefaultCube
            /\ \A k \in 1..Len(wu_cubes) :
                  k \notin {wu_next + 1, wu_i + 1} => wu_cubes'[k] = wu_cubes[k]
            /\ CutTiles(wu_cubes[wu_next + 1], wu_cubes'[wu_next + 1],
                        wu_cubes'[wu_i + 1])
       /\ q_pc = "wu_result" => Len(wu_result') <= q_max_colors]_vars

\* C26 witness: create_cubes has finished after two successful cuts.
C26_Witness ==
    /\ q_pc = "wu_result"
    /\ Cardinality(CubesInUse) >= 3
    /\ \A k \in CubesInUse : DirectSum(wu_hist, wu_cubes[k], "weights") > 0

\* x is below 2^32
FitsU32(x) == x >= 0 /\ x \div 65536 < 65536

\* C27: no u32 computation of Wu exceeds u32::MAX: the per-cell products
\* and sums of construct_histogram, the cumulative moments, and the sums
\* of squares formed in maximize and variance by the cut that comes next.
C27_NoU32Overflow ==
    /\ \A i \in 1..Len(wu_hist) :
          /\ FitsU32(wu_hist[i].weights) /\ FitsU32(wu_hist[i].moments_r)
          /\ FitsU32(wu_hist[i].moments_g) /\ FitsU32(wu_hist[i].moments_b)
          /\ FitsU32(wu_hist[i].moments)
    /\ \A table \in {"weights", "moments_r", "moments_g", "moments_b"} :
          FitsU32(Moment(wu_hist, table, MAX_INDEX, MAX_INDEX, MAX_INDEX))
    /\ q_pc = "wu_cubes" =>
          ~CutOverflows(wu_hist, cut(wu_hist, wu_cubes[wu_next + 1],
                                     wu_cubes[wu_i + 1]))

\* The centroids WSMeans added to the starting clusters
Supplemental == (Len(ws_starting) + 1)..Len(ws_clusters)

\* C28: in QuantizerCelebi the colours Wu hands over never outnumber the
\* clusters of WSMeans, min(max_colors, distinct input pixels), so
\* cluster_count - starting_clusters.len() does not underflow and the
\* index loop ends; the centroids WSMeans adds are observed input points
\* and pairwise distinct.
C28_SeedsFitClusters ==
    q_kind = "celebi" =>
        /\ q_pc = "ws_start" => Len(ws_starting) <= WsClusterCount
        /\ q_pc # "hung"
        /\ (q_pc = "ws_iterate" /\ ws_iteration = 0) =>
              /\ Len(ws_clusters) = WsClusterCount
              /\ \A k \in Supplemental : ws_clusters[k] \in Range(WsPoints)
              /\ \A k, l \in Supplemental :
                    k # l => ws_clusters[k] # ws_clusters[l]

\* Input positions holding a pixel that is not fully transparent
Visible == {p \in 1..Len(q_pixels) : alpha_from_argb(q_pixels[p]) # 0}

\* The histogram cell of a pixel: the top 5 bits of each channel, plus one
CellOf(pixel) ==
    <<red_from_argb(pixel) \div 8 + 1, green_from_argb(pixel) \div 8 + 1,
      blue_from_argb(pixel) \div 8 + 1>>

CellWeight(cell) ==
    SumSeq([i \in 1..Len(wu_hist) |->
              IF <<wu_hist[i].i_r, wu_hist[i].i_g, wu_hist[i].i_b>> = cell
              THEN wu_hist[i].weights ELSE 0])

\* C25: the weight of every cell of the Wu histogram is the number of
\* input pixels of that cell that are not fully transparent (so the total
\* weight is the number of such pixels), and the WSMeans stage of Celebi
\* works on the same pixels: its points are the distinct pixels that are
\* not fully transparent and its populations add up to their number.
C25_AlphaFiltering ==
    /\ (q_kind \in {"wu", "celebi"} /\ q_pc \notin {"wu_start", "idle"}) =>
          /\ \A c \in AlphaColors :
                CellWeight(CellOf(c)) =
                   Cardinality({p \in Visible : CellOf(q_pixels[p]) = CellOf(c)})
          /\ SumSeq([i \in 1..Len(wu_hist) |-> wu_hist[i].weights])
                = Cardinality(Visible)
    /\ (q_kind = "celebi" /\ q_pc \in {"ws_finish", "done"}) =>
          /\ Len(ws_cluster_indices) = Cardinality({q_pixels[p] : p \in Visible})
          /\ SumSeq(ws_pixel_count_sums) = Cardinality(Visible)

\* Input pixels whose point is assigned to the cluster by cluster_indices
AssignedPixels(cluster_index, cluster_indices) ==
    Cardinality({p \in 1..Len(q_pixels) :
                    \E i \in 1..Len(WsPixels) :
                       /\ WsPixels[i] = q_pixels[p]
                       /\ cluster_indices[i] = cluster_index})

\* Points the coming iteration moves to another cluster
MovingPoints ==
    {i \in 1..Len(WsPoints) :
        ExhaustiveIndex(WsPoints[i], ws_clusters, ws_cluster_indices[i])
            # ws_cluster_indices[i]}

\* C21: the WSMeans loop runs at most max_iterations iterations; an
\* iteration ends the loop early exactly when it is not the first one and
\* moves no point, and the first iteration never does; the populations in
\* the result are those of the final point-to-cluster assignment.
C21_IterationLoop ==
    [][/\ q_pc = "ws_iterate" =>
            \E early \in {q_pc' = "ws_finish" /\ ws_iteration' = ws_iteration} :
               /\ ws_iteration < ws_max_iterations
               /\ early <=> (MovingPoints = {} /\ ws_iteration > 0)
               /\ ws_iteration = 0 => ~early
               /\ ~early => ws_iteration' = ws_iteration + 1
               /\ q_pc' = "ws_iterate" <=>
                     (~early /\ ws_iteration + 1 < ws_max_iterations)
               /\ q_pc' \in {"ws_iterate", "ws_finish"}
               /\ \A c \in 1..Len(ws_clusters) :
                     ws_pixel_count_sums'[c] =
                        AssignedPixels(c - 1, ws_cluster_indices')
       /\ q_pc = "ws_finish" =>
            /\ q_pc' = "done"
            /\ ws_cluster_indices' = ws_cluster_indices
            /\ \A k \in 1..Len(ws_result') :
                  \E c \in 1..Len(ws_clusters) :
                     /\ to_int(ws_clusters[c]) = ws_result'[k].argb
                     /\ ws_result'[k].count =
                           AssignedPixels(c - 1, ws_cluster_indices)
                     /\ ws_result'[k].count > 0]_vars

\* A run with the default max_iterations that stopped early, after at
\* least one full iteration, and reported two clusters.
C21_Witness ==
    /\ q_pc = "done"
    /\ q_kind = "wsmeans"
    /\ ws_max_iterations = MAX_ITERATIONS
    /\ ws_iteration \in 1..(MAX_ITERATIONS - 1)
    /\ Len(ws_result) >= 2

\* C10: a second run of QuantizerWsmeans::quantize on the same pixels,
\* max_colors and starting clusters returns the same colors with the same
\* populations in the same order as the first run.
C10_RunsIdentical ==
    (q_kind = "wsmeans" /\ ws_run = 2 /\ QuantDone) =>
        ws_result = ws_first_result

\* ========================================================================
\* Properties of TonalPalette
\* ========================================================================
FromListPalette == tp_pc = "ready" /\ tp_hue = None /\ tp_chroma = None
OfPalette == tp_pc = "ready" /\ tp_hue # None /\ tp_chroma # None

CommonIndex(tone_value) ==
    {i \in 1..COMMON_SIZE : COMMON_TONES[i] = tone_value}

\* C13: on a palette built by from_list(colors), tone(t) returns
\* Ok(colors[i]) when t is COMMON_TONES[i] and Err(ArgumentError) for every
\* other t, never panics, and leaves the stored colours as from_list
\* stored them.
C13_FromListTone ==
    /\ tp_colors # <<>> /\ tp_calls > 0 => tp_pc = "ready"
    /\ FromListPalette =>
          /\ tp_cache = [i \in 1..COMMON_SIZE |->
                           [tone |-> COMMON_TONES[i], argb |-> tp_colors[i]]]
          /\ tp_ret.call = "tone" =>
                /\ \A i \in CommonIndex(tp_ret.tone) :
                      tp_ret.result.ok /\ tp_ret.result.value = tp_colors[i]
                /\ CommonIndex(tp_ret.tone) = {} =>
                      ~tp_ret.result.ok /\ tp_ret.result.value = "ArgumentError"

C13_Witness ==
    /\ FromListPalette
    /\ tp_calls >= 2
    /\ tp_ret.call = "tone"
    /\ CommonIndex(tp_ret.tone) = {}
    /\ ~tp_ret.result.ok

\* C14: on a palette built by of(hue, chroma), every tone call returns Ok;
\* the entries already in the cache stay where they are with their values,
\* a tone that is cached is answered with the cached value, and the value
\* for a tone is the one an empty cache would give, whatever was asked
\* before.
C14_CacheStable ==
    [][OfPalette =>
         /\ \A k \in 1..Len(tp_cache) :
               \E n \in 1..Len(tp_cache') : tp_cache'[n] = tp_cache[k]
         /\ tp_calls' > tp_calls /\ tp_ret'.call = "tone" =>
               /\ tp_ret'.result.ok
               /\ CacheHas(tp_cache, tp_ret'.tone) =>
                     tp_ret'.result.value = CacheGet(tp_cache, tp_ret'.tone)
               /\ tp_ret'.result.value =
                     CacheGet(ToneEntry(<<>>, tp_hue[1], tp_chroma[1], tp_ret'.tone),
                              tp_ret'.tone)]_vars

\* ========================================================================
\* Properties of Hct and Cam16
\* ========================================================================
\* C15: the hue the gamut search uses is the hue given to Hct::new or to
\* Hct::get_int wrapped modulo 360 into [0, 360), and the tone it uses is
\* the given tone clamped to [0, 100].
C15_HueWrappedToneClamped ==
    hc_pc = "search" =>
       /\ hc_search.hue = sanitize_degrees_double(hc_request.hue)
       /\ 0 <= hc_search.hue /\ hc_search.hue < 360000
       /\ hc_search.lstar = clamp_double(0, 100000, hc_request.tone)

\* C16: every Cam16 record, whichever constructor made it, has its hue in
\* [0, 360).
C16_CamHueNormalized ==
    cm_cam.constructor # "none" => 0 <= cm_cam.hue /\ cm_cam.hue < 360000

\* C17: for every ARGB colour c, Hct::new(h.hue, h.chroma, h.tone).to_int()
\* with h = Hct::from_int(c) is c again, and so is
\* Hct::new(cam.hue, cam.chroma, lstar_from_argb(c)).to_int().
C17_RoundTrip ==
    rt_trip.checked => rt_trip.rebuilt = rt_trip.color /\ rt_trip.from_cam = rt_trip.color

Width(search) == Abs(search.low - search.high)

\* C18: the first iteration of the chroma loop is the only one that may
\* leave [low, high] as it is, every later one halves it, the J loop halves
\* its interval until it is at most 0.01 wide, and so the iterations of
\* both loops are bounded by the number of halvings.
C18_SearchTerminates ==
    [][hc_pc = "search" /\ hc_iter' = hc_iter + 1 =>
         /\ Pow2(hc_search'.inner) <= J_HIGH
         /\ hc_pc' = "search" =>
               IF hc_search.is_first_loop
               THEN Width(hc_search') = Width(hc_search)
               ELSE 2 * Width(hc_search') <= Width(hc_search) + 1
         /\ hc_iter' >= 2 =>
               Pow2(hc_iter' - 2) * CHROMA_SEARCH_ENDPOINT <= hc_request.chroma]_vars

FoundChromas(probes) ==
    {probes[k].chroma : k \in {n \in 1..Len(probes) : probes[n].found}}

\* C19: a first probe that succeeds is returned at once; otherwise
\* 0 <= low <= mid <= high <= requested chroma throughout, every iteration
\* moves the search on so that a value is returned, and that value is the
\* answer of the largest probed chroma that succeeded, which is the final
\* low, or the gray of the tone when no probe succeeded.
C19_SearchOutcome ==
    [][/\ hc_pc' = "search" =>
             /\ 0 <= hc_search'.low /\ hc_search'.low <= hc_search'.mid
             /\ hc_search'.mid <= hc_search'.high
             /\ hc_search'.high <= hc_request'.chroma
       /\ hc_pc = "search" /\ hc_pc' = "search" =>
             <<hc_search'.low, hc_search'.mid, hc_search'.high, hc_search'.is_first_loop>>
               # <<hc_search.low, hc_search.mid, hc_search.high, hc_search.is_first_loop>>
       /\ hc_pc = "search" /\ hc_pc' = "done" =>
             \A probes \in {hc_search'.probes} :
                IF probes[1].found
                THEN Len(probes) = 1
                     /\ hc_ret' = [kind |-> "cam", chroma |-> hc_request.chroma]
                ELSE IF FoundChromas(probes) = {}
                THEN hc_ret' = [kind |-> "gray", lstar |-> hc_search.lstar]
                ELSE /\ hc_ret'.kind = "cam"
                     /\ hc_ret'.chroma = hc_search.low
                     /\ hc_ret'.chroma \in FoundChromas(probes)
                     /\ \A chroma \in FoundChromas(probes) : chroma <= hc_ret'.chroma]_vars

\* The CAM16 record of the colour get_int returned: the record of the gray,
\* or the answer of the probe, whose colour answer.viewed() is
ColorRecord(ret) ==
    IF ret.kind = "gray" THEN Cam16OfArgb[GrayOfTone[ret.lstar]]
    ELSE [answer_at |-> ret.chroma]

\* The record get_cam16 returned
Cam16Record(ret) ==
    IF ret.kind = "from_int" THEN Cam16OfArgb[ret.argb]
    ELSE [answer_at |-> ret.chroma]

\* The probes the two searches have both made
CommonProbes ==
    1..(IF Len(hc_search.probes) < Len(hc_cam16.search.probes)
        THEN Len(hc_search.probes) ELSE Len(hc_cam16.search.probes))

BothSearch ==
    /\ hc_request.call = "get_cam16"
    /\ ~Degenerate(hc_request.chroma, hc_request.tone)
    /\ hc_pc # "idle"

SearchesAgree ==
    BothSearch =>
        /\ \A k \in CommonProbes :
              hc_search.probes[k] = hc_cam16.search.probes[k]
        /\ (hc_iter = hc_cam16.iter /\ hc_pc = hc_cam16.pc) =>
              /\ hc_search.low = hc_cam16.search.low
              /\ hc_search.mid = hc_cam16.search.mid
              /\ hc_search.high = hc_cam16.search.high
              /\ hc_search.is_first_loop = hc_cam16.search.is_first_loop

ReturnsAgree ==
    (hc_request.call = "get_cam16" /\ hc_pc = "done" /\ hc_cam16.pc = "done") =>
        Cam16Record(hc_cam16.ret) = ColorRecord(hc_ret)

\* C29: for every hue, chroma and tone, the degenerate ones (chroma < 1,
\* tone <= 0, tone >= 100) included, get_cam16 returns the CAM16 record of
\* the colour get_int returns for the same arguments, and the two searches
\* take the same branch at every step.
C29_Cam16MatchesInt == SearchesAgree /\ ReturnsAgree

\* C30: for two palettes a and b, built by of or by from_list, with any
\* tones asked of them, a == b holds exactly when b == a.
C30_EqSymmetric ==
    tp_pair.pc = "compared" => (tp_pair.ab <=> tp_pair.ba)
====
